---- MODULE Spec2Model ----
(***************************************************************************)
(* koa-cli: job submission over ssh (slurm.py, ssh.py).                    *)
(*                                                                         *)
(* Python strings are modelled as sequences of one-character strings, so   *)
(* that startswith, split, strip, replace, the job-id regular expression,  *)
(* pathlib's parsing and shlex.quote are computed character by character.  *)
(* An Optional value is a sequence of length 0 (None) or 1 (the value).    *)
(***************************************************************************)
EXTENDS Integers, Sequences, FiniteSets, TLC

VARIABLES
    scope,             \* which input dimension this run enumerates widely
    pc,                \* position inside the operation under way
    script_exists,     \* local_job_script.exists()
    cwd,               \* Path.cwd(), as a string
    local_job_script,  \* submit_job's local_job_script, as given
    remote_name,       \* submit_job's remote_name (Optional[str])
    sbatch_args,       \* submit_job's sbatch_args (list of tokens)
    auto_gpu,          \* submit_job's auto_gpu
    script_gpu_count,  \* parse_gpu_count_from_script(local_job_script)
    remote_script,     \* the computed remote destination, str(remote_script)
    args,              \* the sbatch token list under assembly
    available,         \* the inventory get_available_gpus returned
    best_gpu,          \* what select_best_gpu returned (Optional[str])
    calls,             \* external commands issued so far, in order
    outcome,           \* "running", "returned" or the exception raised
    err_msg,           \* the exception's message prefix
    err_detail,        \* text carried by the exception
    job_id,            \* submit_job's return value
    remote_command,    \* run_ssh's token list (run_ssh on its own)
    command_str,       \* run_ssh's joined command string
    remote_command_str,\* run_ssh's remote_command when it is a str (Optional)
    check,             \* run_ssh's check
    capture_output,    \* run_ssh's capture_output
    force_tty,         \* run_ssh's force_tty
    result,            \* the CompletedProcess run_ssh returned (Optional)
    remote_stderr,     \* what the remote command wrote to standard error
    command,           \* args.command of main, "none" for a direct call
    config_loads,      \* load_config succeeds
    local_is_dir,      \* local_dir.is_dir() in sync_directory_to_remote
    excludes,          \* the --exclude patterns the user gave to sync
    sync_path,         \* the path the user gave to sync (Optional)
    status,            \* what main returned (Optional int)
    uncaught,          \* the exception that left main, "" when none did
    printed,           \* print_error / print_success / print_info so far
    options,           \* the argparse namespace of submit and queue
    queue_text         \* what queue_status returned (Optional[str])

vars == <<scope, pc, script_exists, cwd, local_job_script, remote_name,
          sbatch_args, auto_gpu, script_gpu_count, remote_script, args,
          available, best_gpu, calls, outcome, err_msg, err_detail, job_id,
          remote_command, command_str, remote_command_str, check,
          capture_output, force_tty, result, remote_stderr, command,
          config_loads, local_is_dir, excludes, sync_path, status, uncaught,
          printed, options, queue_text>>

-----------------------------------------------------------------------------
(* Bounds of the model. *)

MaxArgs == 2
MaxNameLen == 4
MaxLines == 2
MaxChunks == 4
MaxTokLen == 2

-----------------------------------------------------------------------------
(* Optional values and Python string primitives. *)

None == <<>>

Some(x) == <<x>>

IsNone(o) == Len(o) = 0

Get(o) == o[1]

Startswith(s, p) == Len(s) >= Len(p) /\ SubSeq(s, 1, Len(p)) = p

\* sub in s
Contains(s, sub) ==
    \E i \in 1..(Len(s) - Len(sub) + 1) : SubSeq(s, i, i + Len(sub) - 1) = sub

\* c in s, for one character
HasChar(s, c) == \E i \in 1..Len(s) : s[i] = c

Whitespace == {" ", "\n", "\t"}

\* s.strip()
Strip(s) ==
    LET keep == {i \in 1..Len(s) : s[i] \notin Whitespace} IN
    IF keep = {} THEN <<>>
    ELSE SubSeq(s, CHOOSE i \in keep : \A j \in keep : i <= j,
                   CHOOSE i \in keep : \A j \in keep : i >= j)

\* s.split(c): the pieces between occurrences of c, empty pieces kept
Split(s, c) ==
    LET cuts == {0, Len(s) + 1} \cup {i \in 1..Len(s) : s[i] = c}
        Kth(k) == CHOOSE x \in cuts : Cardinality({y \in cuts : y < x}) = k - 1
    IN [k \in 1..(Cardinality(cuts) - 1) |->
            SubSeq(s, Kth(k) + 1, Kth(k + 1) - 1)]

\* s.split(): the maximal runs of non-whitespace characters
RECURSIVE SplitWsAcc(_, _, _)
SplitWsAcc(s, cur, acc) ==
    IF Len(s) = 0 THEN (IF Len(cur) > 0 THEN Append(acc, cur) ELSE acc)
    ELSE IF s[1] \in Whitespace
         THEN SplitWsAcc(Tail(s), <<>>,
                         IF Len(cur) > 0 THEN Append(acc, cur) ELSE acc)
    ELSE SplitWsAcc(Tail(s), Append(cur, s[1]), acc)

SplitWs(s) == SplitWsAcc(s, <<>>, <<>>)

\* s.split(c, 1)[1]: everything after the first occurrence of c
RECURSIVE AfterFirst(_, _)
AfterFirst(s, c) ==
    IF Len(s) = 0 THEN <<>>
    ELSE IF s[1] = c THEN Tail(s)
    ELSE AfterFirst(Tail(s), c)

\* s.replace(c, "")
RECURSIVE Remove(_, _)
Remove(s, c) ==
    IF Len(s) = 0 THEN <<>>
    ELSE IF s[1] = c THEN Remove(Tail(s), c)
    ELSE <<s[1]>> \o Remove(Tail(s), c)

Uppers ==
    <<"A", "B", "C", "D", "E", "F", "G", "H", "I", "J", "K", "L", "M", "N", "O",
      "P", "Q", "R", "S", "T", "U", "V", "W", "X", "Y", "Z">>

Lowers ==
    <<"a", "b", "c", "d", "e", "f", "g", "h", "i", "j", "k", "l", "m", "n", "o",
      "p", "q", "r", "s", "t", "u", "v", "w", "x", "y", "z">>

UpperToLower == [c \in {Uppers[i] : i \in 1..26} |->
                    Lowers[CHOOSE i \in 1..26 : Uppers[i] = c]]

\* s.lower()
Lower(s) ==
    [i \in 1..Len(s) |->
        IF s[i] \in DOMAIN UpperToLower THEN UpperToLower[s[i]] ELSE s[i]]

\* sep.join(parts)
RECURSIVE Join(_, _)
Join(parts, sep) ==
    IF Len(parts) = 0 THEN <<>>
    ELSE IF Len(parts) = 1 THEN parts[1]
    ELSE parts[1] \o sep \o Join(Tail(parts), sep)

Digits == {"0", "1", "2", "3", "4", "5", "6", "7", "8", "9"}

DigitChars == <<"0", "1", "2", "3", "4", "5", "6", "7", "8", "9">>

\* str(n) for a natural number n
RECURSIVE IntStr(_)
IntStr(n) ==
    IF n < 10 THEN <<DigitChars[n + 1]>>
    ELSE IntStr(n \div 10) \o <<DigitChars[(n % 10) + 1]>>

\* All sequences over S of length at most n
SeqsUpTo(S, n) == UNION {[1..k -> S] : k \in 0..n}

-----------------------------------------------------------------------------
(* String constants of slurm.py. *)

S_partition == <<"-", "-", "p", "a", "r", "t", "i", "t", "i", "o", "n">>

S_p == <<"-", "p">>

S_partition_eq == <<"-", "-", "p", "a", "r", "t", "i", "t", "i", "o", "n", "=">>

S_gres == <<"-", "-", "g", "r", "e", "s">>

S_gpus == <<"-", "-", "g", "p", "u", "s">>

S_gpus_per_node ==
    <<"-", "-", "g", "p", "u", "s", "-", "p", "e", "r", "-", "n", "o", "d", "e">>

S_gres_eq == <<"-", "-", "g", "r", "e", "s", "=">>

S_gpus_eq == <<"-", "-", "g", "p", "u", "s", "=">>

S_gpus_per_node_eq ==
    <<"-", "-", "g", "p", "u", "s", "-", "p", "e", "r", "-", "n", "o", "d", "e", "=">>

S_sbatch == <<"s", "b", "a", "t", "c", "h">>

S_mkdir == <<"m", "k", "d", "i", "r">>

S_sinfo == <<"s", "i", "n", "f", "o">>

S_Format ==
    <<"-", "-", "F", "o", "r", "m", "a", "t", "=", "n", "o", "d", "e", "h", "o",
      "s", "t", ",", "g", "r", "e", "s", ":", "3", "0", ",", "s", "t", "a", "t",
      "e", "c", "o", "m", "p", "a", "c", "t">>

S_noheader == <<"-", "-", "n", "o", "h", "e", "a", "d", "e", "r">>

S_gpu_colon == <<"g", "p", "u", ":">>

S_idle == <<"i", "d", "l", "e">>

S_mix == <<"m", "i", "x">>

S_mixed == <<"m", "i", "x", "e", "d">>

DEFAULT_PARTITION == <<"k", "i", "l", "l", "-", "s", "h", "a", "r", "e", "d">>

FALLBACK_GPU == <<"r", "t", "x", "2", "0", "8", "0", "t", "i">>

\* The literal text of SBATCH_JOB_ID_PATTERN before its digit group
SBATCH_JOB_ID_PREFIX ==
    <<"S", "u", "b", "m", "i", "t", "t", "e", "d", " ", "b", "a", "t", "c", "h",
      " ", "j", "o", "b", " ">>

GPU_PRIORITY ==
    (<<"h", "2", "0", "0">> :> 110) @@
    (<<"n", "v", "i", "d", "i", "a", "h", "2", "0", "0", "n", "v", "l">> :> 110) @@
    (<<"h", "1", "0", "0">> :> 100) @@
    (<<"n", "v", "i", "d", "i", "a", "h", "1", "0", "0">> :> 100) @@
    (<<"a", "1", "0", "0">> :> 90) @@
    (<<"n", "v", "i", "d", "i", "a", "a", "1", "0", "0">> :> 90) @@
    (<<"a", "3", "0">> :> 80) @@
    (<<"n", "v", "i", "d", "i", "a", "a", "3", "0">> :> 80) @@
    (<<"v", "1", "0", "0">> :> 70) @@
    (<<"n", "v", "i", "d", "i", "a", "v", "1", "0", "0">> :> 70) @@
    (<<"r", "t", "x", "2", "0", "8", "0", "t", "i">> :> 50) @@
    (<<"r", "t", "x", "_", "2", "0", "8", "0", "_", "t", "i">> :> 50) @@
    (<<"g", "e", "f", "o", "r", "c", "e", "_", "r", "t", "x", "_", "2", "0", "8",
       "0", "_", "t", "i">> :> 50) @@
    (<<"n", "v", "i", "d", "i", "a", "g", "e", "f", "o", "r", "c", "e", "r", "t",
       "x", "2", "0", "8", "0", "t", "i">> :> 50)

GPU_NAME_MAP ==
    (<<"n", "v", "i", "d", "i", "a", "h", "2", "0", "0", "n", "v", "l">> :>
        <<"n", "v", "i", "d", "i", "a", "_", "h", "2", "0", "0", "_", "n", "v", "l">>) @@
    (<<"n", "v", "i", "d", "i", "a", "h", "1", "0", "0">> :>
        <<"n", "v", "i", "d", "i", "a", "_", "h", "1", "0", "0">>) @@
    (<<"n", "v", "i", "d", "i", "a", "a", "1", "0", "0">> :>
        <<"n", "v", "i", "d", "i", "a", "_", "a", "1", "0", "0">>) @@
    (<<"n", "v", "i", "d", "i", "a", "a", "3", "0">> :>
        <<"n", "v", "i", "d", "i", "a", "_", "a", "3", "0">>) @@
    (<<"n", "v", "i", "d", "i", "a", "v", "1", "0", "0">> :>
        <<"n", "v", "i", "d", "i", "a", "_", "v", "1", "0", "0">>) @@
    (<<"n", "v", "i", "d", "i", "a", "g", "e", "f", "o", "r", "c", "e", "r", "t",
       "x", "2", "0", "8", "0", "t", "i">> :>
        <<"g", "e", "f", "o", "r", "c", "e", "_", "r", "t", "x", "_", "2", "0", "8",
          "0", "_", "t", "i">>)

-----------------------------------------------------------------------------
(* Flag detection. *)

\* _has_partition_flag without the '-pXXX' test
HasPartitionFlag_NoShortForm(flags) ==
    \E i \in 1..Len(flags) :
        \/ flags[i] \in {S_partition, S_p}
        \/ Startswith(flags[i], S_partition_eq)

_has_partition_flag(flags) ==
    \E i \in 1..Len(flags) :
        \/ flags[i] \in {S_partition, S_p}
        \/ Startswith(flags[i], S_partition_eq)
        \/ (Startswith(flags[i], S_p) /\ flags[i] # S_p)

_has_gres_flag(flags) ==
    \E i \in 1..Len(flags) :
        \/ flags[i] \in {S_gres, S_gpus, S_gpus_per_node}
        \/ Startswith(flags[i], S_gres_eq)
        \/ Startswith(flags[i], S_gpus_eq)

\* The partition submit_job passes to select_best_gpu: the loop over
\* sbatch_args_list, the last matching flag winning
RECURSIVE PartitionScan(_, _, _)
PartitionScan(flags, i, partition) ==
    IF i > Len(flags) THEN partition
    ELSE IF flags[i] \in {S_partition, S_p} /\ i + 1 <= Len(flags)
         THEN PartitionScan(flags, i + 1, flags[i + 1])
    ELSE IF Startswith(flags[i], S_partition_eq)
         THEN PartitionScan(flags, i + 1, AfterFirst(flags[i], "="))
    ELSE PartitionScan(flags, i + 1, partition)

QueryPartition(flags) == PartitionScan(flags, 1, DEFAULT_PARTITION)

-----------------------------------------------------------------------------
(* Inventory: get_available_gpus and select_best_gpu.  An inventory is a   *)
(* Python dict in insertion order: a sequence of [type, count] records    *)
(* with distinct types.                                                    *)

InvTypes(inv) == {inv[i].type : i \in 1..Len(inv)}

\* gpu_counts[gpu_type] = gpu_counts.get(gpu_type, 0) + 1
Incr(inv, t) ==
    IF t \in InvTypes(inv)
    THEN [i \in 1..Len(inv) |->
            IF inv[i].type = t
            THEN [type |-> t, count |-> inv[i].count + 1]
            ELSE inv[i]]
    ELSE Append(inv, [type |-> t, count |-> 1])

\* The loop body without its test of the node state
CountLine_AnyState(inv, line) ==
    LET parts == SplitWs(line) IN
    IF Len(parts) < 3 THEN inv
    ELSE LET gres == Lower(parts[2]) IN
         IF Contains(gres, S_gpu_colon)
         THEN Incr(inv, Remove(Split(gres, ":")[2], "_"))
         ELSE inv

\* One iteration of the loop over the output lines
CountLine(inv, line) ==
    LET parts == SplitWs(line) IN
    IF Len(Strip(line)) = 0 THEN inv
    ELSE IF Len(parts) < 3 THEN inv
    ELSE LET gres  == Lower(parts[2])
             state == Lower(parts[3])
         IN IF state \notin {S_idle, S_mix, S_mixed} THEN inv
            ELSE IF Contains(gres, S_gpu_colon)
                 THEN LET gpu_parts == Split(gres, ":") IN
                      IF Len(gpu_parts) >= 2
                      THEN Incr(inv, Remove(gpu_parts[2], "_"))
                      ELSE inv
            ELSE inv

RECURSIVE CountLines(_, _)
CountLines(inv, lines) ==
    IF Len(lines) = 0 THEN inv
    ELSE CountLines(CountLine(inv, lines[1]), Tail(lines))

\* The body of get_available_gpus's try block, given the captured stdout
ParseInventory(stdout) ==
    LET lines == IF Len(stdout) > 0 THEN Split(Strip(stdout), "\n") ELSE <<>>
    IN CountLines(<<>>, lines)

\* GPU_PRIORITY.get(gpu_type, 0)
Score(t) == IF t \in DOMAIN GPU_PRIORITY THEN GPU_PRIORITY[t] ELSE 0

\* The loop of select_best_gpu: best is Optional[str]
RECURSIVE BestScan(_, _, _, _)
BestScan(inv, i, best, best_score) ==
    IF i > Len(inv) THEN best
    ELSE IF inv[i].count > 0 /\ Score(inv[i].type) > best_score
         THEN BestScan(inv, i + 1, Some(inv[i].type), Score(inv[i].type))
    ELSE BestScan(inv, i + 1, best, best_score)

\* GPU_NAME_MAP.get(best_gpu, best_gpu)
SlurmName(t) == IF t \in DOMAIN GPU_NAME_MAP THEN GPU_NAME_MAP[t] ELSE t

\* select_best_gpu that forgets the count > 0 test
RECURSIVE BestScanAnyCount(_, _, _, _)
BestScanAnyCount(inv, i, best, best_score) ==
    IF i > Len(inv) THEN best
    ELSE IF Score(inv[i].type) > best_score
         THEN BestScanAnyCount(inv, i + 1, Some(inv[i].type), Score(inv[i].type))
    ELSE BestScanAnyCount(inv, i + 1, best, best_score)

SelectBest_AnyCount(inv) ==
    IF Len(inv) = 0 THEN FALLBACK_GPU
    ELSE LET best == BestScanAnyCount(inv, 1, None, -1) IN
         IF ~IsNone(best) /\ Len(Get(best)) > 0
         THEN SlurmName(Get(best))
         ELSE FALLBACK_GPU

\* select_best_gpu whose loop lets a later entry of equal score win
RECURSIVE BestScanLastMax(_, _, _, _)
BestScanLastMax(inv, i, best, best_score) ==
    IF i > Len(inv) THEN best
    ELSE IF inv[i].count > 0 /\ Score(inv[i].type) >= best_score
         THEN BestScanLastMax(inv, i + 1, Some(inv[i].type), Score(inv[i].type))
    ELSE BestScanLastMax(inv, i + 1, best, best_score)

SelectBest_LastMax(inv) ==
    IF Len(inv) = 0 THEN FALLBACK_GPU
    ELSE LET best == BestScanLastMax(inv, 1, None, -1) IN
         IF ~IsNone(best) /\ Len(Get(best)) > 0
         THEN SlurmName(Get(best))
         ELSE FALLBACK_GPU

\* select_best_gpu, given the inventory get_available_gpus returned.
\* "if best_gpu:" is false for None and for the empty string.
SelectBest(inv) ==
    IF Len(inv) = 0 THEN FALLBACK_GPU
    ELSE LET best == BestScan(inv, 1, None, -1) IN
         IF ~IsNone(best) /\ Len(Get(best)) > 0
         THEN SlurmName(Get(best))
         ELSE FALLBACK_GPU

-----------------------------------------------------------------------------
(* pathlib.  A path is [abs, parts]: PurePosixPath's root and its name     *)
(* components.  Parsing a string drops empty and "." components.           *)

RECURSIVE DropDots(_)
DropDots(comps) ==
    IF Len(comps) = 0 THEN <<>>
    ELSE IF comps[1] \in {<<>>, <<".">>} THEN DropDots(Tail(comps))
    ELSE <<comps[1]>> \o DropDots(Tail(comps))

\* Path(s)
ParsePath(s) ==
    [abs |-> Len(s) > 0 /\ s[1] = "/", parts |-> DropDots(Split(s, "/"))]

\* str(path)
PathStr(path) ==
    IF path.abs THEN <<"/">> \o Join(path.parts, <<"/">>)
    ELSE IF Len(path.parts) = 0 THEN <<".">>
    ELSE Join(path.parts, <<"/">>)

\* path.name
PathName(path) ==
    IF Len(path.parts) = 0 THEN <<>> ELSE path.parts[Len(path.parts)]

\* a / b: an absolute right operand replaces the left one
PathJoin(a, b) ==
    IF b.abs THEN b ELSE [abs |-> a.abs, parts |-> a.parts \o b.parts]

\* Following ".." components, as the file system does (no symbolic links)
RECURSIVE Collapse(_, _, _)
Collapse(isabs, parts, acc) ==
    IF Len(parts) = 0 THEN acc
    ELSE IF parts[1] = <<".", ".">>
         THEN IF Len(acc) > 0 /\ acc[Len(acc)] # <<".", ".">>
              THEN Collapse(isabs, Tail(parts), SubSeq(acc, 1, Len(acc) - 1))
              ELSE IF isabs THEN Collapse(isabs, Tail(parts), acc)
              ELSE Collapse(isabs, Tail(parts), Append(acc, parts[1]))
    ELSE Collapse(isabs, Tail(parts), Append(acc, parts[1]))

\* path.resolve() in working directory wd (an absolute path)
Resolve(path, wd) ==
    LET full == PathJoin(wd, path) IN
    [abs |-> TRUE, parts |-> Collapse(TRUE, full.parts, <<>>)]

IsPrefix(p, q) == Len(p) <= Len(q) /\ SubSeq(q, 1, Len(p)) = p

\* path.relative_to(base): None stands for the ValueError
RelativeTo(path, base) ==
    IF path.abs = base.abs /\ IsPrefix(base.parts, path.parts)
    THEN Some([abs |-> FALSE,
               parts |-> SubSeq(path.parts, Len(base.parts) + 1, Len(path.parts))])
    ELSE None

\* Config.remote_workdir, the default of config.py
remote_workdir == ParsePath(<<"~", "/", "k", "o", "a", "-", "j", "o", "b", "s">>)

\* The validation without its test for a backslash
InvalidDirName_NoBackslash(name) ==
    \/ name \in {<<".">>, <<".", ".">>, <<>>}
    \/ HasChar(name, "/")

\* The test on cwd_name in submit_job: TRUE when ValueError is raised
InvalidDirName(name) ==
    \/ name \in {<<".">>, <<".", ".">>, <<>>}
    \/ HasChar(name, "/")
    \/ HasChar(name, "\\")

\* remote_repo_dir = config.remote_workdir / cwd_name
RemoteRepoDir(cwd_name) == PathJoin(remote_workdir, ParsePath(cwd_name))

\* remote_script of submit_job, given that cwd_name passed the validation
RemoteScript(wd, script, rname) ==
    LET cwd_path == ParsePath(wd)
        repo     == RemoteRepoDir(PathName(cwd_path))
    IN IF ~IsNone(rname) /\ Len(Get(rname)) > 0
       THEN PathJoin(repo, ParsePath(Get(rname)))
       ELSE LET rel == RelativeTo(Resolve(ParsePath(script), cwd_path),
                                  Resolve(cwd_path, cwd_path))
            IN IF ~IsNone(rel)
               THEN PathJoin(repo, Get(rel))
               ELSE PathJoin(repo, ParsePath(PathName(ParsePath(script))))

-----------------------------------------------------------------------------
(* Job-id extraction: SBATCH_JOB_ID_PATTERN.search(output).                *)

RECURSIVE DigitRun(_, _)
DigitRun(s, i) ==
    IF i <= Len(s) /\ s[i] \in Digits THEN <<s[i]>> \o DigitRun(s, i + 1)
    ELSE <<>>

\* Positions where "Submitted batch job " is followed by at least one digit
MatchStarts(s) ==
    {i \in 1..Len(s) :
        /\ i + Len(SBATCH_JOB_ID_PREFIX) <= Len(s)
        /\ SubSeq(s, i, i + Len(SBATCH_JOB_ID_PREFIX) - 1) = SBATCH_JOB_ID_PREFIX
        /\ s[i + Len(SBATCH_JOB_ID_PREFIX)] \in Digits}

Min(S) == CHOOSE x \in S : \A y \in S : x <= y

\* A search that takes the last match instead of the first
JobIdSearch_Last(s) ==
    IF MatchStarts(s) = {} THEN None
    ELSE Some(DigitRun(s, (CHOOSE x \in MatchStarts(s) :
                              \A y \in MatchStarts(s) : x >= y)
                          + Len(SBATCH_JOB_ID_PREFIX)))

\* match.group(1) of the leftmost match, or None
JobIdSearch(s) ==
    IF MatchStarts(s) = {} THEN None
    ELSE Some(DigitRun(s, Min(MatchStarts(s)) + Len(SBATCH_JOB_ID_PREFIX)))

-----------------------------------------------------------------------------
(* run_ssh's command string.                                               *)

\* Characters shlex.quote leaves bare: [a-zA-Z0-9_@%+=:,./-]
SafeChars ==
    {"a", "b", "c", "d", "e", "f", "g", "h", "i", "j", "k", "l", "m", "n", "o",
     "p", "q", "r", "s", "t", "u", "v", "w", "x", "y", "z", "F", "S"}
    \cup Digits \cup {"_", "@", "%", "+", "=", ":", ",", ".", "/", "-"}

\* s.replace("'", "'\"'\"'")
RECURSIVE EscapeSingleQuotes(_)
EscapeSingleQuotes(s) ==
    IF Len(s) = 0 THEN <<>>
    ELSE IF s[1] = "'"
         THEN <<"'", "\"", "'", "\"", "'">> \o EscapeSingleQuotes(Tail(s))
    ELSE <<s[1]>> \o EscapeSingleQuotes(Tail(s))

\* shlex.quote(s)
ShlexQuote(s) ==
    IF Len(s) = 0 THEN <<"'", "'">>
    ELSE IF \A i \in 1..Len(s) : s[i] \in SafeChars THEN s
    ELSE <<"'">> \o EscapeSingleQuotes(s) \o <<"'">>

\* run_ssh's loop with shlex.quote applied to every part
QuotePart_AlwaysShlex(part) == ShlexQuote(part)

\* One iteration of run_ssh's loop over remote_command
QuotePart(part) ==
    IF Startswith(part, <<"~">>)
    THEN <<"\"">> \o part \o <<"\"">>
    ELSE ShlexQuote(part)

\* command_str for a token list
CommandStr(tokens) ==
    Join([i \in 1..Len(tokens) |-> QuotePart(tokens[i])], <<" ">>)

-----------------------------------------------------------------------------
(* Inputs and environment responses the model enumerates.                  *)

\* Config.login
login == <<"u", "@", "h">>

ExitCodes == {0, 1}

\* User-supplied sbatch tokens
FlagTokens ==
    {S_partition, S_p, S_partition_eq \o <<"g", "p", "u">>,
     S_p \o <<"g", "p", "u">>, <<"g", "p", "u">>,
     S_gres, S_gpus, S_gpus_per_node,
     S_gres_eq \o <<"g", "p", "u", ":", "1">>, S_gpus_eq \o <<"1">>,
     S_gpus_per_node_eq \o <<"1">>,
     <<"-", "-", "t", "i", "m", "e">>}

\* Working directories: an ordinary one, the root (whose name is empty) and
\* one whose name holds a backslash
Cwds ==
    {<<"/", "h", "/", "p">>, <<"/">>, <<"/", "h", "/", "a", "\\", "b">>}

\* Script paths as given: in the working directory, below it, outside it
LocalScripts ==
    {<<"s">>, <<"d", "/", "s">>, <<".", ".", "/", "s">>, <<"/", "t", "/", "s">>,
     <<".", ".">>}

RemoteNameChars == {"r", ".", "/"}

RemoteNames == {None} \cup {Some(n) : n \in SeqsUpTo(RemoteNameChars, MaxNameLen)}

\* Lines sinfo may print (nodehost, gres, statecompact)
SinfoLines ==
    {<<"n", " ", "g", "p", "u", ":", "h", "1", "0", "0", ":", "1", " ", "i", "d", "l", "e">>,
     <<"n", " ", "g", "p", "u", ":", "a", "1", "0", "0", ":", "2", " ", "m", "i", "x", "e", "d">>,
     <<"n", " ", "g", "p", "u", ":", "N", "V", "I", "D", "I", "A", "_", "H", "1", "0", "0", ":", "1",
       " ", "M", "I", "X">>,
     <<"n", " ", "g", "p", "u", ":", "x", "p", "u", ":", "1", " ", "i", "d", "l", "e">>,
     <<"n", " ", "g", "p", "u", ":", " ", "i", "d", "l", "e">>,
     <<"n", " ", "g", "p", "u", ":", "h", "2", "0", "0", ":", "1", " ", "d", "o", "w", "n">>,
     <<"n", " ", "(", "n", "u", "l", "l", ")", " ", "i", "d", "l", "e">>,
     <<"n", " ", "g", "p", "u", ":", "h", "2", "0", "0", ":", "1">>,
     <<" ">>}

Line_h100 ==
    <<"n", " ", "g", "p", "u", ":", "h", "1", "0", "0", ":", "4", " ", "i", "d", "l", "e", "\n">>

Line_a100 ==
    <<"n", " ", "g", "p", "u", ":", "a", "1", "0", "0", ":", "4", " ", "m", "i", "x", "\n">>

\* An output whose inventory is {h100: 2, a100: 5}
SinfoScenario ==
    Line_h100 \o Line_a100 \o Line_a100 \o Line_h100 \o Line_a100 \o Line_a100
    \o Line_a100

SinfoWide ==
    {Join(ls, <<"\n">>) \o <<"\n">> : ls \in SeqsUpTo(SinfoLines, MaxLines) \ {<<>>}}
    \cup {<<>>}

\* A sinfo result: the exit status and the captured text (None when reading
\* the result raised)
SinfoResults(sc) ==
    {[rc |-> 1, out |-> None], [rc |-> 0, out |-> None]}
    \cup {[rc |-> 0, out |-> Some(o)] :
            o \in IF sc = "inventory" THEN SinfoWide \cup {SinfoScenario}
                  ELSE {SinfoScenario}}

OutputChunks == {SBATCH_JOB_ID_PREFIX, <<"1">>, <<"2">>, <<"x">>, <<"\n">>}

RECURSIVE Concat(_)
Concat(ss) == IF Len(ss) = 0 THEN <<>> ELSE ss[1] \o Concat(Tail(ss))

SbatchWide == {Concat(cs) : cs \in SeqsUpTo(OutputChunks, MaxChunks)}

SbatchResults(sc) ==
    {[rc |-> 1, out |-> <<>>]}
    \cup {[rc |-> 0, out |-> o] :
            o \in IF sc = "output" THEN SbatchWide
                  ELSE {<<>>, SBATCH_JOB_ID_PREFIX \o <<"1", "2", "\n">>}}

-----------------------------------------------------------------------------
(* Failure tests of the transport layer.                                   *)

\* _base_args: the ssh invocation in front of the login and the command,
\* for a configuration without identity file and proxy command and an
\* environment without TERM
_base_args(tty) ==
    <<"ssh">>
    \o (IF tty THEN <<"-tt", "-o", "SetEnv=TERM=xterm-256color">> ELSE <<>>)
    \o <<"-o", "LogLevel=ERROR">>

\* run_ssh that raises on every non-zero exit status, whatever check is
RunSshRaises_IgnoresCheck(chk, rc) == rc # 0

\* run_ssh: "if check and result.returncode != 0: raise SSHError"
RunSshRaises(chk, rc) == chk /\ rc # 0

\* copy_to_remote that ignores scp's exit status
ScpRaises_Never(rc) == FALSE

\* copy_to_remote: "if result.returncode != 0: raise SSHError"
ScpRaises(rc) == rc # 0

\* get_available_gpus without its try/except: a failed query propagates
GetAvailableGpus_Propagating(res) ==
    IF RunSshRaises(TRUE, res.rc) \/ IsNone(res.out)
    THEN [raised |-> TRUE, inv |-> <<>>]
    ELSE [raised |-> FALSE, inv |-> ParseInventory(Get(res.out))]

\* get_available_gpus: the inventory, the empty one on any exception
GetAvailableGpus(res) ==
    IF RunSshRaises(TRUE, res.rc) \/ IsNone(res.out)
    THEN [raised |-> FALSE, inv |-> <<>>]
    ELSE [raised |-> FALSE, inv |-> ParseInventory(Get(res.out))]

-----------------------------------------------------------------------------
(* submit_job, one action per step between external commands.              *)

\* One external command: what was run, with or without a terminal, its exit
\* status and the standard output the caller read (None when it read none)
Call(cmd, argv, tty, rc, out) ==
    [cmd |-> cmd, argv |-> argv, tty |-> tty, rc |-> rc, out |-> out]

Raise(kind, msg, detail) ==
    /\ outcome' = kind
    /\ err_msg' = msg
    /\ err_detail' = detail
    /\ pc' = "done"

NoRaise == UNCHANGED <<outcome, err_msg, err_detail>>

inputs == <<scope, script_exists, cwd, local_job_script, remote_name,
            sbatch_args, auto_gpu, script_gpu_count>>

quoting == <<remote_command, command_str>>

\* run_ssh's other arguments and its result, when run_ssh is called on its own
ssh_io == <<remote_command_str, check, capture_output, force_tty, result,
           remote_stderr>>

\* main's state: the command, its environment and what it reported
cli == <<command, config_loads, local_is_dir, excludes, sync_path, status,
         uncaught, printed, options, queue_text>>

\* The namespace when no option was given
NoOptions ==
    [partition |-> None, time |-> None, gpus |-> None, gres |-> None,
     cpus |-> None, memory |-> None, account |-> None, qos |-> None,
     sbatch_arg |-> <<>>, no_auto_gpu |-> FALSE]

\* run_ssh is not the operation under way
NoRunSsh ==
    /\ remote_command_str = None
    /\ check = TRUE
    /\ capture_output = FALSE
    /\ force_tty = TRUE
    /\ result = None
    /\ remote_stderr = <<>>

\* The operation is called directly, not through main
DirectCall ==
    /\ command = "none"
    /\ config_loads = TRUE
    /\ local_is_dir = FALSE
    /\ excludes = <<>>
    /\ sync_path = None
    /\ status = None
    /\ uncaught = ""
    /\ printed = <<>>
    /\ options = NoOptions
    /\ queue_text = None

\* submit_job without its existence test
CheckScript_Unchecked ==
    /\ pc = "start"
    /\ pc' = "mkdir"
    /\ NoRaise
    /\ UNCHANGED <<inputs, quoting, ssh_io, cli, remote_script, args, available, best_gpu,
                   calls, job_id>>

\* "if not local_job_script.exists(): raise FileNotFoundError"
CheckScript ==
    /\ pc = "start"
    /\ IF ~script_exists
       THEN Raise("FileNotFoundError", "Job script not found", local_job_script)
       ELSE pc' = "mkdir" /\ NoRaise
    /\ UNCHANGED <<inputs, quoting, ssh_io, cli, remote_script, args, available, best_gpu,
                   calls, job_id>>

\* ensure_remote_workspace(config)
EnsureRemoteWorkspace ==
    /\ pc = "mkdir"
    /\ \E rc \in ExitCodes :
        /\ calls' = Append(calls,
                Call("mkdir", <<S_mkdir, S_p, PathStr(remote_workdir)>>, TRUE, rc,
                     None))
        /\ IF RunSshRaises(TRUE, rc)
           THEN Raise("SSHError", "SSH command failed", <<>>)
           ELSE pc' = "dest" /\ NoRaise
    /\ UNCHANGED <<inputs, quoting, ssh_io, cli, remote_script, args, available, best_gpu,
                   job_id>>

\* The validation of cwd_name and the computation of remote_script
ComputeDestination ==
    /\ pc = "dest"
    /\ IF InvalidDirName(PathName(ParsePath(cwd)))
       THEN /\ Raise("ValueError", "Invalid directory name",
                     PathName(ParsePath(cwd)))
            /\ UNCHANGED remote_script
       ELSE /\ remote_script' =
                    PathStr(RemoteScript(cwd, local_job_script, remote_name))
            /\ pc' = "copy"
            /\ NoRaise
    /\ UNCHANGED <<inputs, quoting, ssh_io, cli, args, available, best_gpu, calls, job_id>>

\* copy_to_remote(config, local_job_script, remote_script)
CopyToRemote ==
    /\ pc = "copy"
    /\ \E rc \in ExitCodes :
        /\ calls' = Append(calls,
                Call("scp", <<local_job_script, login \o <<":">> \o remote_script>>,
                     FALSE, rc, None))
        /\ IF ScpRaises(rc)
           THEN Raise("SSHError", "SCP upload failed", <<>>)
           ELSE pc' = "assemble" /\ NoRaise
    /\ UNCHANGED <<inputs, quoting, ssh_io, cli, remote_script, args, available, best_gpu,
                   job_id>>

\* args after "Add default partition if not specified"
BaseArgs(flags) ==
    IF ~_has_partition_flag(flags)
    THEN <<S_sbatch, S_partition, DEFAULT_PARTITION>>
    ELSE <<S_sbatch>>

\* The auto-selection block entered whatever auto_gpu and the flags are
WantsAutoGpu_Always(auto, flags) == TRUE

\* The test guarding the auto-selection block
WantsAutoGpu(auto, flags) == auto /\ ~_has_gres_flag(flags)

\* f"gpu:{best_gpu}:{gpu_count}"
GresValue(gpu, count) == S_gpu_colon \o gpu \o <<":">> \o IntStr(count)

\* gpu_count, defaulting to 1 when the script names none
GpuCount(parsed) == IF IsNone(parsed) THEN 1 ELSE Get(parsed)

\* The assembly with the user flags put in front of the defaults
FinishArgs_FlagsFirst(a, flags, script) ==
    <<a[1]>> \o flags \o Tail(a) \o <<script>>

\* The assembly with the remote script put in front of the user flags
FinishArgs_ScriptFirst(a, flags, script) == a \o <<script>> \o flags

\* The tail of the assembly: user flags, then the remote script
FinishArgs(a, flags, script) == a \o flags \o <<script>>

\* Lines 240-248 and, without auto-selection, 270-272
AssembleArgs ==
    /\ pc = "assemble"
    /\ IF WantsAutoGpu(auto_gpu, sbatch_args)
       THEN /\ args' = BaseArgs(sbatch_args)
            /\ pc' = "select"
       ELSE /\ args' = FinishArgs(BaseArgs(sbatch_args), sbatch_args, remote_script)
            /\ pc' = "sbatch"
    /\ NoRaise
    /\ UNCHANGED <<inputs, quoting, ssh_io, cli, remote_script, available, best_gpu, calls,
                   job_id>>

\* Lines 249-272: the partition scan, select_best_gpu with its sinfo query,
\* the "--gres" pair, the user flags and the remote script
AutoSelectGpu ==
    /\ pc = "select"
    /\ \E res \in SinfoResults(scope) :
        LET got == GetAvailableGpus(res)
            gpu == SelectBest(got.inv)
        IN
        /\ calls' = Append(calls,
                Call("sinfo",
                     <<S_sinfo, S_p, QueryPartition(sbatch_args), S_Format,
                       S_noheader>>, TRUE, res.rc, res.out))
        /\ IF got.raised
           THEN /\ Raise("SSHError", "SSH command failed", <<>>)
                /\ UNCHANGED <<available, best_gpu, args>>
           ELSE /\ available' = got.inv
                /\ best_gpu' = Some(gpu)
                /\ args' = FinishArgs(
                      args \o <<S_gres, GresValue(gpu, GpuCount(script_gpu_count))>>,
                      sbatch_args, remote_script)
                /\ pc' = "sbatch"
                /\ NoRaise
    /\ UNCHANGED <<inputs, quoting, ssh_io, cli, remote_script, job_id>>

\* submit_job that removes the copied script when the submission fails
Sbatch_WithCleanup ==
    /\ pc = "sbatch"
    /\ \E res \in SbatchResults(scope) :
        LET call == Call("sbatch", args, FALSE, res.rc,
                         IF res.rc = 0 THEN Some(res.out) ELSE None)
            rm == Call("rm", <<<<"r", "m">>, remote_script>>, TRUE, 0, None)
            match == JobIdSearch(Strip(res.out))
        IN IF RunSshRaises(TRUE, res.rc) \/ IsNone(match)
           THEN /\ calls' = calls \o <<call, rm>>
                /\ Raise("SSHError", "SSH command failed", <<>>)
                /\ UNCHANGED job_id
           ELSE /\ calls' = Append(calls, call)
                /\ job_id' = match
                /\ outcome' = "returned"
                /\ pc' = "done"
                /\ UNCHANGED <<err_msg, err_detail>>
    /\ UNCHANGED <<inputs, quoting, ssh_io, cli, remote_script, args, available,
                   best_gpu>>

\* Lines 275-280: run sbatch without a terminal and parse its output
Sbatch ==
    /\ pc = "sbatch"
    /\ \E res \in SbatchResults(scope) :
        /\ calls' = Append(calls, Call("sbatch", args, FALSE, res.rc,
                                    IF res.rc = 0 THEN Some(res.out) ELSE None))
        /\ IF RunSshRaises(TRUE, res.rc)
           THEN /\ Raise("SSHError", "SSH command failed", <<>>)
                /\ UNCHANGED job_id
           ELSE LET output == Strip(res.out)
                    match  == JobIdSearch(output)
                IN IF IsNone(match)
                   THEN /\ Raise("SSHError",
                                 "Unable to parse sbatch output for job id", output)
                        /\ UNCHANGED job_id
                   ELSE /\ job_id' = match
                        /\ outcome' = "returned"
                        /\ pc' = "done"
                        /\ UNCHANGED <<err_msg, err_detail>>
    /\ UNCHANGED <<inputs, quoting, ssh_io, cli, remote_script, args, available, best_gpu>>

SubmitNext ==
    \/ CheckScript
    \/ EnsureRemoteWorkspace
    \/ ComputeDestination
    \/ CopyToRemote
    \/ AssembleArgs
    \/ AutoSelectGpu
    \/ Sbatch

\* The state at the call of submit_job with the given arguments
SubmitInit(sc, wds, scripts, rnames, flagss, autos, counts) ==
    /\ scope = sc
    /\ pc = "start"
    /\ script_exists \in BOOLEAN
    /\ cwd \in wds
    /\ local_job_script \in scripts
    /\ remote_name \in rnames
    /\ sbatch_args \in flagss
    /\ auto_gpu \in autos
    /\ script_gpu_count \in counts
    /\ remote_script = <<>>
    /\ args = <<>>
    /\ available = <<>>
    /\ best_gpu = None
    /\ calls = <<>>
    /\ outcome = "running"
    /\ err_msg = ""
    /\ err_detail = <<>>
    /\ job_id = None
    /\ remote_command = <<>>
    /\ command_str = None
    /\ NoRunSsh
    /\ DirectCall

\* Wide in the user flags
InitFlags ==
    SubmitInit("flags", {<<"/", "h", "/", "p">>}, {<<"s">>}, {None},
               SeqsUpTo(FlagTokens, MaxArgs), BOOLEAN, {None, Some(2)})

\* Wide in the working directory, the script path and the remote name
InitPaths ==
    SubmitInit("paths", Cwds, LocalScripts, RemoteNames,
               {<<>>}, BOOLEAN, {None})

\* Wide in what sinfo prints
InitInventory ==
    SubmitInit("inventory", {<<"/", "h", "/", "p">>}, {<<"s">>}, {None},
               {<<>>, <<S_partition, <<"g", "p", "u">>>>}, BOOLEAN, {None, Some(2)})

\* Wide in what sbatch prints
InitOutput ==
    SubmitInit("output", {<<"/", "h", "/", "p">>}, {<<"s">>}, {None},
               {<<>>}, BOOLEAN, {None})

Spec == InitFlags /\ [][SubmitNext]_vars

SpecPaths == InitPaths /\ [][SubmitNext]_vars

SpecInventory == InitInventory /\ [][SubmitNext]_vars

SpecOutput == InitOutput /\ [][SubmitNext]_vars

-----------------------------------------------------------------------------
(* How a POSIX shell reads a command string: the commands it holds and     *)
(* the words of each, after quote removal.  ok is FALSE when the string    *)
(* is not plain quoted text: an unterminated quote, an empty command, a    *)
(* parameter expansion, an unquoted special character.  The backquote is  *)
(* not a character of the model's alphabets.                               *)

ShStart ==
    [mode |-> "plain", cur |-> <<>>, inword |-> FALSE, words |-> <<>>,
     cmds |-> <<>>, ok |-> TRUE]

ShLit(st, c) == [st EXCEPT !.cur = Append(@, c), !.inword = TRUE]

ShEndWord(st) ==
    IF st.inword
    THEN [st EXCEPT !.words = Append(@, st.cur), !.cur = <<>>, !.inword = FALSE]
    ELSE st

ShEndCmd(st) ==
    LET t == ShEndWord(st) IN
    IF Len(t.words) > 0
    THEN [t EXCEPT !.cmds = Append(@, t.words), !.words = <<>>]
    ELSE [t EXCEPT !.ok = FALSE]

\* Characters that make "$" start an expansion
ExpansionStart ==
    (SafeChars \ {"%", "+", "=", ":", ",", ".", "/"})
    \cup {"$", "(", "{", "?", "!", "#", "*"}

\* Characters a backslash escapes inside double quotes
DqEscapable == {"$", "\"", "\\", "\n"}

ShStep(st, c, nxt) ==
    CASE st.mode = "plain" ->
            IF c \in {" ", "\t"} THEN ShEndWord(st)
            ELSE IF c \in {";", "\n"} THEN ShEndCmd(st)
            ELSE IF c = "'" THEN [st EXCEPT !.mode = "single", !.inword = TRUE]
            ELSE IF c = "\"" THEN [st EXCEPT !.mode = "double", !.inword = TRUE]
            ELSE IF c = "\\" THEN [st EXCEPT !.mode = "plain_esc", !.inword = TRUE]
            ELSE IF c \in SafeChars THEN ShLit(st, c)
            ELSE [ShLit(st, c) EXCEPT !.ok = FALSE]
      [] st.mode = "plain_esc" -> [ShLit(st, c) EXCEPT !.mode = "plain"]
      [] st.mode = "single" ->
            IF c = "'" THEN [st EXCEPT !.mode = "plain"] ELSE ShLit(st, c)
      [] st.mode = "double" ->
            IF c = "\"" THEN [st EXCEPT !.mode = "plain"]
            ELSE IF c = "\\" /\ nxt \in DqEscapable
                 THEN [st EXCEPT !.mode = "double_esc"]
            ELSE IF c = "$" /\ nxt \in ExpansionStart
                 THEN [ShLit(st, c) EXCEPT !.ok = FALSE]
            ELSE ShLit(st, c)
      [] st.mode = "double_esc" -> [ShLit(st, c) EXCEPT !.mode = "double"]

RECURSIVE ShRun(_, _, _)
ShRun(s, i, st) ==
    IF i > Len(s)
    THEN LET t == ShEndWord(st) IN
         [cmds |-> IF Len(t.words) > 0 THEN Append(t.cmds, t.words) ELSE t.cmds,
          ok   |-> t.ok /\ st.mode = "plain"]
    ELSE ShRun(s, i + 1, ShStep(st, s[i], IF i < Len(s) THEN s[i + 1] ELSE ""))

ShellParse(s) == ShRun(s, 1, ShStart)

-----------------------------------------------------------------------------
(* run_ssh and select_best_gpu on their own, over enumerated arguments.    *)

TokenChars == {"a", " ", "'", "\"", "$", ";", "~"}

\* Tokens of the spec's examples: ~/work, hello world, it's
SampleTokens ==
    {<<"~", "/", "w", "o", "r", "k">>,
     <<"h", "e", "l", "l", "o", " ", "w", "o", "r", "l", "d">>,
     <<"i", "t", "'", "s">>,
     <<"~", "\"", ";", "a", ";", "\"">>}

Tokens == SeqsUpTo(TokenChars, MaxTokLen) \cup SampleTokens

TokenLists ==
    {<<>>} \cup {<<t>> : t \in Tokens}
    \cup {<<t, u>> : t \in Tokens, u \in SampleTokens}
    \cup {<<u, t>> : t \in Tokens, u \in SampleTokens}

\* What the remote side may write to standard error
StderrTexts == {<<>>, <<"e">>}

\* run_ssh: the command string (the string itself when remote_command is a
\* str, the quoted tokens joined by spaces otherwise), the ssh invocation,
\* and the SSHError when check is set and the exit status is not zero
RunSsh ==
    /\ pc = "run_ssh"
    /\ \E rc \in ExitCodes, err \in StderrTexts :
        LET cs == IF IsNone(remote_command_str) THEN CommandStr(remote_command)
                  ELSE Get(remote_command_str)
            ssh_command == [base |-> _base_args(force_tty), login |-> login,
                            command_str |-> cs]
            stderr == IF capture_output THEN Some(err) ELSE None
        IN
        /\ command_str' = Some(cs)
        /\ remote_stderr' = err
        /\ calls' = Append(calls, Call("ssh", remote_command, force_tty, rc,
                                    IF capture_output THEN Some(<<>>) ELSE None))
        /\ IF RunSshRaises(check, rc)
           THEN /\ Raise("SSHError", "SSH command failed",
                         [returncode |-> rc, invocation |-> ssh_command,
                          stderr |-> stderr])
                /\ UNCHANGED result
           ELSE /\ result' = Some([returncode |-> rc, stderr |-> stderr])
                /\ outcome' = "returned"
                /\ pc' = "done"
                /\ UNCHANGED <<err_msg, err_detail>>
    /\ UNCHANGED <<inputs, cli, remote_script, args, available, best_gpu,
                   job_id, remote_command, remote_command_str, check,
                   capture_output, force_tty>>

InitQuote ==
    /\ scope = "quote"
    /\ pc = "run_ssh"
    /\ remote_command \in TokenLists
    /\ command_str = None
    /\ script_exists = FALSE
    /\ cwd = <<>>
    /\ local_job_script = <<>>
    /\ remote_name = None
    /\ sbatch_args = <<>>
    /\ auto_gpu = FALSE
    /\ script_gpu_count = None
    /\ remote_script = <<>>
    /\ args = <<>>
    /\ available = <<>>
    /\ best_gpu = None
    /\ calls = <<>>
    /\ outcome = "running"
    /\ err_msg = ""
    /\ err_detail = <<>>
    /\ job_id = None
    /\ NoRunSsh
    /\ DirectCall

SpecQuote == InitQuote /\ [][RunSsh]_vars

\* Command strings given to run_ssh as a str
CommandStrings ==
    {<<"l", "s">>, <<"l", "s", " ", "~">>, <<"a", ";", "b">>, <<"'", "a">>, <<>>}

\* run_ssh called with every combination of its arguments
InitRunSsh ==
    /\ scope = "run_ssh"
    /\ pc = "run_ssh"
    /\ \/ remote_command \in TokenLists /\ remote_command_str = None
       \/ remote_command = <<>> /\ remote_command_str \in {Some(c) : c \in CommandStrings}
    /\ check \in BOOLEAN
    /\ capture_output \in BOOLEAN
    /\ force_tty \in BOOLEAN
    /\ result = None
    /\ remote_stderr = <<>>
    /\ command_str = None
    /\ script_exists = FALSE
    /\ cwd = <<>>
    /\ local_job_script = <<>>
    /\ remote_name = None
    /\ sbatch_args = <<>>
    /\ auto_gpu = FALSE
    /\ script_gpu_count = None
    /\ remote_script = <<>>
    /\ args = <<>>
    /\ available = <<>>
    /\ best_gpu = None
    /\ calls = <<>>
    /\ outcome = "running"
    /\ err_msg = ""
    /\ err_detail = <<>>
    /\ job_id = None
    /\ DirectCall

SpecRunSsh == InitRunSsh /\ [][RunSsh]_vars

MaxInv == 2

MaxCount == 2

TypeNames ==
    {<<"h", "1", "0", "0">>, <<"a", "1", "0", "0">>, <<"h", "2", "0", "0">>,
     <<"n", "v", "i", "d", "i", "a", "h", "1", "0", "0">>,
     <<"n", "v", "i", "d", "i", "a", "h", "2", "0", "0", "n", "v", "l">>,
     <<"x", "p", "u">>, <<>>}

\* Dicts with at most MaxInv keys and counts up to MaxCount, in every order
Inventories ==
    {inv \in SeqsUpTo([type : TypeNames, count : 0..MaxCount], MaxInv) :
        \A i, j \in 1..Len(inv) : i # j => inv[i].type # inv[j].type}

\* select_best_gpu, lines 129-153, on the inventory it was handed
SelectBestGpu ==
    /\ pc = "select_best_gpu"
    /\ best_gpu' = Some(SelectBest(available))
    /\ pc' = "done"
    /\ UNCHANGED <<inputs, quoting, ssh_io, cli, remote_script, args, available, calls,
                   outcome, err_msg, err_detail, job_id>>

InitSelect ==
    /\ scope = "select"
    /\ pc = "select_best_gpu"
    /\ available \in Inventories
    /\ best_gpu = None
    /\ remote_command = <<>>
    /\ command_str = None
    /\ script_exists = FALSE
    /\ cwd = <<>>
    /\ local_job_script = <<>>
    /\ remote_name = None
    /\ sbatch_args = <<>>
    /\ auto_gpu = FALSE
    /\ script_gpu_count = None
    /\ remote_script = <<>>
    /\ args = <<>>
    /\ calls = <<>>
    /\ outcome = "running"
    /\ err_msg = ""
    /\ err_detail = <<>>
    /\ job_id = None
    /\ NoRunSsh
    /\ DirectCall

SpecSelect == InitSelect /\ [][SelectBestGpu]_vars

-----------------------------------------------------------------------------
(* The other remote operations and the command line (__main__.py).  The    *)
(* setup command is left out: its module is not part of the sources.       *)

MaxExcludes == 2

\* DEFAULT_EXCLUDES of __main__.py
DEFAULT_EXCLUDES ==
    <<".git/", ".gitignore", ".venv/", "__pycache__/", "*.pyc", "*.pyo",
      "*.pyd", "*.log", "*.tmp", ".DS_Store", ".mypy_cache/",
      ".pytest_cache/", ".ruff_cache/", ".coverage", ".idea/", ".vscode/",
      ".claude/", "node_modules/", "*.egg-info/", "dist/", "build/">>

\* What the user passes as --exclude
UserExcludes == SeqsUpTo({"x", "y"}, MaxExcludes)

\* What the user passes as the path of sync
SyncPaths ==
    {None, Some(<<"d">>), Some(<<".", ".">>), Some(<<".", ".", "/", ".", ".">>)}

Commands == {"submit", "cancel", "jobs", "queue", "check", "sync", "build-env"}

cli_inputs == <<command, config_loads, local_is_dir, excludes, sync_path,
                options>>

submit_state == <<remote_script, args, available, best_gpu, job_id>>

report == <<status, uncaught, printed>>

Message(kind, text) == [kind |-> kind, text |-> text]

\* An operation that is one run_ssh with check on and a terminal allocated
RemoteOp(cmd, argv, captures) ==
    /\ \E rc \in ExitCodes :
        /\ calls' = Append(calls,
                Call(cmd, argv, TRUE, rc,
                     IF captures /\ rc = 0 THEN Some(<<>>) ELSE None))
        /\ IF RunSshRaises(TRUE, rc)
           THEN Raise("SSHError", "SSH command failed", <<>>)
           ELSE /\ outcome' = "returned"
                /\ pc' = "done"
                /\ UNCHANGED <<err_msg, err_detail>>
    /\ UNCHANGED <<inputs, quoting, ssh_io, submit_state, queue_text, cli_inputs, report>>

\* cancel_job that runs scancel a second time when the first one fails
CancelJob_RetryOnce ==
    /\ pc = "cancel"
    /\ \E rc \in ExitCodes :
        /\ calls' = Append(calls, Call("scancel", <<"scancel", "12">>, TRUE, rc,
                                    None))
        /\ IF RunSshRaises(TRUE, rc) /\ Len(calls) = 0
           THEN UNCHANGED <<pc, outcome, err_msg, err_detail>>
           ELSE IF RunSshRaises(TRUE, rc)
           THEN Raise("SSHError", "SSH command failed", <<>>)
           ELSE /\ outcome' = "returned"
                /\ pc' = "done"
                /\ UNCHANGED <<err_msg, err_detail>>
    /\ UNCHANGED <<inputs, quoting, ssh_io, submit_state, queue_text, cli_inputs, report>>

\* cancel_job
CancelJob ==
    /\ pc = "cancel"
    /\ RemoteOp("scancel", <<"scancel", "12">>, FALSE)

\* list_jobs
ListJobs ==
    /\ pc = "jobs"
    /\ RemoteOp("squeue", <<"squeue", "-u", "u", "-o", "%i|%j|%T|%M|%l|%D|%R">>,
                TRUE)

\* config.user
user == <<"u">>

\* Python's truth value of an Optional[str]
Truthy(opt) == ~IsNone(opt) /\ Len(Get(opt)) > 0

\* c * n
Repeat(c, n) == [i \in 1..n |-> c]

S_no_jobs ==
    <<"N", "o", " ", "j", "o", "b", "s", " ", "i", "n", " ", "q", "u", "e",
    "u", "e", "\n">>

S_queue_status == <<"Q", "u", "e", "u", "e", " ", "S", "t", "a", "t", "u", "s">>

S_your_jobs ==
    <<"Y", "o", "u", "r", " ", "j", "o", "b", "s", " ", "a", "r", "e", " ",
    "m", "a", "r", "k", "e", "d", " ", "w", "i", "t", "h", " ", ">", ">",
    ">", " ", "<", "<", "<">>

\* The title line, lines 333
QueueTitle(partition) ==
    S_queue_status \o
    (IF Truthy(partition)
     THEN <<" ", "(", "p", "a", "r", "t", "i", "t", "i", "o", "n", ":", " ">> \o Get(partition) \o <<")">>
     ELSE <<>>)

\* The test of lines 343-344 applied to every column
IsUserJob_AnyColumn(line) ==
    LET parts == Split(line, "|") IN
    Len(parts) > 1 /\ \E k \in 1..Len(parts) : parts[k] = user

\* The test of lines 343-344: the second column is the user
IsUserJob(line) ==
    LET parts == Split(line, "|") IN
    Len(parts) > 1 /\ parts[2] = user

\* queue_status from line 327 on: the text made of the captured output
FormatQueue(stdout, partition) ==
    LET lines == IF Len(stdout) > 0 THEN Split(Strip(stdout), "\n") ELSE <<>>
        body == [i \in 1..(Len(lines) - 1) |->
                    IF IsUserJob(lines[i + 1])
                    THEN <<">", ">", ">", " ">> \o lines[i + 1]
                         \o <<" ", "<", "<", "<">>
                    ELSE lines[i + 1]]
        output == <<Repeat("=", 100), QueueTitle(partition), Repeat("=", 100),
                    lines[1], Repeat("-", 100)>>
                  \o body
                  \o <<Repeat("=", 100), S_your_jobs, Repeat("=", 100)>>
    IN IF Len(lines) = 0 THEN S_no_jobs
       ELSE Join(output, <<"\n">>) \o <<"\n">>

MaxJobs == 2

QueueHeaders == {<<"I", "|", "U", "|", "J">>, <<"0", "|", "u">>}

\* Rows of squeue: jobs of the user and of others, the user's name in
\* another column or as the prefix of a longer one, rows of one column,
\* an empty row, a row with the carriage return of the terminal
QueueRows ==
    {<<"1", "|", "u", "|", "j">>,
     <<"2", "|", "v", "|", "j">>,
     <<"3", "|", "u", "u", "|", "j">>,
     <<"u", "|", "4">>,
     <<"5">>,
     <<>>,
     <<"6", "|", "u", "\r">>,
     <<"7", "|", "u">>,
     <<" ", "8", "|", "u", "|", "j", " ">>}

QueueWide ==
    {<<>>, <<"\n">>} \union
    {Join(<<h>> \o rows, <<"\n">>) \o tail :
        h \in QueueHeaders, rows \in SeqsUpTo(QueueRows, MaxJobs),
        tail \in {<<>>, <<"\n">>}}

\* What squeue writes
QueueResults(sc) ==
    IF sc = "queue" THEN QueueWide
    ELSE {<<>>, <<"I", "|", "U", "|", "J", "\n", "1", "|", "u", "|", "j", "\n", "2", "|", "v", "|", "j", "\n">>}

\* queue_status
QueueStatus ==
    /\ pc = "queue"
    /\ \E rc \in ExitCodes, out \in QueueResults(scope) :
        LET cmd == <<"squeue", "-o", "%i|%u|%j|%T|%M|%l|%D|%C|%m|%R",
                     "--sort=P,t,-p">>
                   \o (IF Truthy(options.partition)
                       THEN <<"-p", Get(options.partition)>> ELSE <<>>)
        IN /\ calls' = Append(calls,
                  Call("squeue", cmd, TRUE, rc,
                       IF rc = 0 THEN Some(out) ELSE None))
           /\ IF RunSshRaises(TRUE, rc)
              THEN /\ Raise("SSHError", "SSH command failed", <<>>)
                   /\ UNCHANGED queue_text
              ELSE /\ queue_text' = Some(FormatQueue(out, options.partition))
                   /\ outcome' = "returned"
                   /\ pc' = "done"
                   /\ UNCHANGED <<err_msg, err_detail>>
    /\ UNCHANGED <<inputs, quoting, ssh_io, submit_state, cli_inputs, report>>

\* run_health_checks
RunHealthChecks ==
    /\ pc = "check"
    /\ RemoteOp("bash", <<"bash", "-lc", "set -euo pipefail;...">>, TRUE)

\* copy_from_remote, which no command calls: entered directly
CopyFromRemote ==
    /\ pc = "copy_from_remote"
    /\ \E rc \in ExitCodes :
        /\ calls' = Append(calls,
                Call("scp", <<login \o <<":">> \o <<"r">>, <<"l">>>>, FALSE, rc,
                     None))
        /\ IF ScpRaises(rc)
           THEN Raise("SSHError", "SCP download failed", <<>>)
           ELSE /\ outcome' = "returned"
                /\ pc' = "done"
                /\ UNCHANGED <<err_msg, err_detail>>
    /\ UNCHANGED <<inputs, quoting, ssh_io, submit_state, queue_text, cli_inputs, report>>

\* local_path of _sync: the resolved path argument, or the working directory
SyncLocalPath ==
    IF IsNone(sync_path) THEN ParsePath(cwd)
    ELSE Resolve(ParsePath(Get(sync_path)), ParsePath(cwd))

\* A command that returns 1 after print_error, without raising
ReturnError(text) ==
    /\ printed' = Append(printed, Message("error", text))
    /\ status' = Some(1)
    /\ outcome' = "rejected"
    /\ pc' = "exit"
    /\ UNCHANGED <<err_msg, err_detail, uncaught>>

\* _sync up to the call of sync_directory_to_remote
Sync ==
    /\ pc = "sync"
    /\ IF InvalidDirName(PathName(SyncLocalPath))
       THEN ReturnError("Invalid directory name")
       ELSE /\ printed' = Append(printed, Message("info", "Syncing"))
            /\ pc' = "sync_dir"
            /\ UNCHANGED <<outcome, err_msg, err_detail, status, uncaught>>
    /\ UNCHANGED <<inputs, quoting, ssh_io, submit_state, queue_text, cli_inputs, calls>>

\* sync_directory_to_remote: "if not local_dir.is_dir(): raise"
SyncCheckDir ==
    /\ pc = "sync_dir"
    /\ IF ~local_is_dir
       THEN Raise("FileNotFoundError", "Local directory does not exist",
                  PathStr(SyncLocalPath))
       ELSE pc' = "sync_mkdir" /\ NoRaise
    /\ UNCHANGED <<inputs, quoting, ssh_io, submit_state, queue_text, cli_inputs, report,
                   calls>>

\* remote_repo_dir of _sync, as a string
SyncRemoteDir == PathStr(RemoteRepoDir(PathName(SyncLocalPath)))

\* sync_directory_to_remote: run_ssh(config, ["mkdir", "-p", str(remote_dir)])
SyncMkdir ==
    /\ pc = "sync_mkdir"
    /\ \E rc \in ExitCodes :
        /\ calls' = Append(calls,
                Call("mkdir", <<S_mkdir, S_p, SyncRemoteDir>>, TRUE, rc, None))
        /\ IF RunSshRaises(TRUE, rc)
           THEN Raise("SSHError", "SSH command failed", <<>>)
           ELSE pc' = "rsync" /\ NoRaise
    /\ UNCHANGED <<inputs, quoting, ssh_io, submit_state, queue_text, cli_inputs, report>>

\* _rsync_ssh_command, without identity file and proxy command
_rsync_ssh_command == "ssh -o LogLevel=ERROR"

\* The flags with the patterns in reverse order
RECURSIVE ExcludeFlags_Reversed(_)
ExcludeFlags_Reversed(patterns) ==
    IF Len(patterns) = 0 THEN <<>>
    ELSE ExcludeFlags_Reversed(Tail(patterns)) \o <<"--exclude", Head(patterns)>>

\* "for pattern in excludes: rsync_command.extend(['--exclude', pattern])"
RECURSIVE ExcludeFlags(_)
ExcludeFlags(patterns) ==
    IF Len(patterns) = 0 THEN <<>>
    ELSE <<"--exclude", Head(patterns)>> \o ExcludeFlags(Tail(patterns))

\* rsync_command: the options, then the source and the destination
RsyncCommand(patterns, src, dst) ==
    <<"rsync", "-av", "--delete">> \o ExcludeFlags(patterns)
    \o <<"-e", _rsync_ssh_command>> \o <<src, dst>>

\* sync_directory_to_remote: the rsync run and its exit status
Rsync ==
    /\ pc = "rsync"
    /\ \E rc \in ExitCodes :
        /\ calls' = Append(calls,
                Call("rsync",
                     RsyncCommand(DEFAULT_EXCLUDES \o excludes,
                                  PathStr(SyncLocalPath) \o <<"/">>,
                                  login \o <<":">> \o SyncRemoteDir),
                     FALSE, rc, None))
        /\ IF rc # 0
           THEN Raise("SSHError", "rsync failed", <<>>)
           ELSE /\ outcome' = "returned"
                /\ pc' = "done"
                /\ UNCHANGED <<err_msg, err_detail>>
    /\ UNCHANGED <<inputs, quoting, ssh_io, submit_state, queue_text, cli_inputs, report>>

\* _build_env up to the call of build_environment
BuildEnv ==
    /\ pc = "build-env"
    /\ IF InvalidDirName(PathName(ParsePath(cwd)))
       THEN ReturnError("Invalid directory name")
       ELSE /\ pc' = "build"
            /\ UNCHANGED <<outcome, err_msg, err_detail, report>>
    /\ UNCHANGED <<inputs, quoting, ssh_io, submit_state, queue_text, cli_inputs, calls>>

\* build_environment: the setup script run through bash -c
BuildEnvironment ==
    /\ pc = "build"
    /\ RemoteOp("bash", <<"bash", "-c", "set -e...">>, FALSE)

\* The entry label of each command's handler
Entry(cmd) == cmd

MaxGpus == 2

\* Python's truth value of an Optional[int]
TruthyInt(opt) == ~IsNone(opt) /\ Get(opt) # 0

\* The values of one option: absent, or <flag, value> when it is truthy
FlagPair(flag, opt) == IF Truthy(opt) THEN <<flag, Get(opt)>> ELSE <<>>

\* _submit, lines 156-172: the sbatch flags built from the options
SubmitFlags(o) ==
    FlagPair(S_partition, o.partition)
    \o FlagPair(<<"-", "-", "t", "i", "m", "e">>, o.time)
    \o (IF TruthyInt(o.gpus)
        THEN <<S_gres_eq \o S_gpu_colon \o IntStr(Get(o.gpus))>> ELSE <<>>)
    \o (IF Truthy(o.gres) THEN <<S_gres_eq \o Get(o.gres)>> ELSE <<>>)
    \o (IF TruthyInt(o.cpus)
        THEN <<<<"-", "-", "c", "p", "u", "s", "-", "p", "e", "r", "-", "t", "a", "s", "k">>,
               IntStr(Get(o.cpus))>>
        ELSE <<>>)
    \o FlagPair(<<"-", "-", "m", "e", "m">>, o.memory)
    \o FlagPair(<<"-", "-", "a", "c", "c", "o", "u", "n", "t">>, o.account)
    \o FlagPair(<<"-", "-", "q", "o", "s">>, o.qos)
    \o o.sbatch_arg

\* _submit, line 175
AutoGpu(o) == ~(o.no_auto_gpu \/ TruthyInt(o.gpus) \/ Truthy(o.gres))

\* _submit up to its call of submit_job
Submit ==
    /\ pc = "submit"
    /\ sbatch_args' = SubmitFlags(options)
    /\ auto_gpu' = AutoGpu(options)
    /\ pc' = "start"
    /\ UNCHANGED <<scope, script_exists, cwd, local_job_script, remote_name,
                   script_gpu_count, quoting, ssh_io, submit_state, queue_text,
                   cli_inputs, report, calls, outcome, err_msg, err_detail>>

\* The options of submit: every combination of the accelerator options and
\* of the partition, with the other options all absent or all given
SubmitOptions ==
    {[partition |-> p, gpus |-> g, gres |-> r, no_auto_gpu |-> n,
      time |-> x.time, cpus |-> x.cpus, memory |-> x.memory,
      account |-> x.account, qos |-> x.qos, sbatch_arg |-> x.sbatch_arg] :
        p \in {None, Some(<<"g", "p", "u">>)},
        g \in {None} \union {Some(k) : k \in 0..MaxGpus},
        r \in {None, Some(<<>>), Some(<<"g", "p", "u", ":", "1">>)},
        n \in BOOLEAN,
        x \in {NoOptions,
               [NoOptions EXCEPT !.time = Some(<<"9">>), !.cpus = Some(4),
                                 !.memory = Some(<<"1", "G">>),
                                 !.account = Some(<<"a">>),
                                 !.qos = Some(<<"q">>),
                                 !.sbatch_arg = <<<<"-", "v">>>>]}}

\* main, lines 274-295: load the configuration and dispatch
MainLoad ==
    /\ pc = "main"
    /\ IF ~config_loads
       THEN /\ printed' = printed \o <<Message("error", "config"),
                                       Message("info", "Run 'koa setup'")>>
            /\ status' = Some(1)
            /\ outcome' = "rejected"
            /\ pc' = "exit"
            /\ UNCHANGED <<err_msg, err_detail, uncaught>>
       ELSE /\ pc' = Entry(command)
            /\ UNCHANGED <<outcome, err_msg, err_detail, report>>
    /\ UNCHANGED <<inputs, quoting, ssh_io, submit_state, queue_text, cli_inputs, calls>>

\* The message of success of each handler
SuccessMessage(cmd) ==
    CASE cmd = "submit" -> Message("success", "Submitted job")
      [] cmd = "cancel" -> Message("success", "Cancelled job")
      [] cmd = "sync" -> Message("success", "Synced to")
      [] cmd = "build-env" -> Message("success", "Environment built successfully!")
      [] OTHER -> Message("output", "")

\* The exceptions main catches around the handlers
MainCatches(kind) == kind \in {"SSHError", "FileNotFoundError"}

\* The end of a handler and of main: the success message and 0, or the
\* except clauses (_build_env's "except Exception", main's "except
\* (SSHError, FileNotFoundError)"), or the exception leaving main
MainReturn ==
    /\ pc = "done"
    /\ command # "none"
    /\ pc' = "exit"
    /\ IF outcome = "returned"
       THEN /\ printed' = Append(printed, SuccessMessage(command))
            /\ status' = Some(0)
            /\ UNCHANGED uncaught
       ELSE IF command = "build-env"
       THEN /\ printed' = Append(printed,
                                 Message("error", "Failed to build environment"))
            /\ status' = Some(1)
            /\ UNCHANGED uncaught
       ELSE IF MainCatches(outcome)
       THEN /\ printed' = Append(printed, Message("error", err_msg))
            /\ status' = Some(1)
            /\ UNCHANGED uncaught
       ELSE /\ uncaught' = outcome
            /\ UNCHANGED <<status, printed>>
    /\ UNCHANGED <<inputs, quoting, ssh_io, submit_state, queue_text, cli_inputs, calls,
                   outcome, err_msg, err_detail>>

CliNext ==
    \/ MainLoad
    \/ Submit
    \/ SubmitNext
    \/ CancelJob
    \/ ListJobs
    \/ QueueStatus
    \/ RunHealthChecks
    \/ CopyFromRemote
    \/ Sync
    \/ SyncCheckDir
    \/ SyncMkdir
    \/ Rsync
    \/ BuildEnv
    \/ BuildEnvironment
    \/ MainReturn

\* Every command of main with the inputs its handler reads, and
\* copy_from_remote called directly
InitCli ==
    /\ scope = "cli"
    /\ \/ /\ command = "submit"
          /\ pc = "main"
          /\ config_loads \in BOOLEAN
          /\ script_exists \in BOOLEAN
          /\ cwd \in Cwds
          /\ options \in SubmitOptions
          /\ sbatch_args = <<>> /\ auto_gpu = FALSE
          /\ local_is_dir = FALSE /\ excludes = <<>> /\ sync_path = None
       \/ /\ command = "sync"
          /\ pc = "main"
          /\ config_loads \in BOOLEAN
          /\ cwd \in Cwds
          /\ local_is_dir \in BOOLEAN
          /\ excludes \in UserExcludes
          /\ sync_path \in SyncPaths
          /\ options = NoOptions
          /\ script_exists = FALSE /\ sbatch_args = <<>> /\ auto_gpu = FALSE
       \/ /\ command = "build-env"
          /\ pc = "main"
          /\ config_loads \in BOOLEAN
          /\ cwd \in Cwds
          /\ options = NoOptions
          /\ local_is_dir = FALSE /\ excludes = <<>> /\ sync_path = None
          /\ script_exists = FALSE /\ sbatch_args = <<>> /\ auto_gpu = FALSE
       \/ /\ command \in {"cancel", "jobs", "check"}
          /\ pc = "main"
          /\ config_loads \in BOOLEAN
          /\ options = NoOptions
          /\ cwd = <<"/", "h", "/", "p">>
          /\ local_is_dir = FALSE /\ excludes = <<>> /\ sync_path = None
          /\ script_exists = FALSE /\ sbatch_args = <<>> /\ auto_gpu = FALSE
       \/ /\ command = "queue"
          /\ pc = "main"
          /\ config_loads \in BOOLEAN
          /\ options \in {[NoOptions EXCEPT !.partition = p] :
                            p \in {None, Some(<<"g", "p", "u">>)}}
          /\ cwd = <<"/", "h", "/", "p">>
          /\ local_is_dir = FALSE /\ excludes = <<>> /\ sync_path = None
          /\ script_exists = FALSE /\ sbatch_args = <<>> /\ auto_gpu = FALSE
       \/ /\ command = "none"
          /\ pc = "copy_from_remote"
          /\ config_loads = TRUE
          /\ options = NoOptions
          /\ cwd = <<"/", "h", "/", "p">>
          /\ local_is_dir = FALSE /\ excludes = <<>> /\ sync_path = None
          /\ script_exists = FALSE /\ sbatch_args = <<>> /\ auto_gpu = FALSE
    /\ local_job_script = <<"s">>
    /\ remote_name = None
    /\ script_gpu_count = None
    /\ remote_script = <<>>
    /\ args = <<>>
    /\ available = <<>>
    /\ best_gpu = None
    /\ calls = <<>>
    /\ outcome = "running"
    /\ err_msg = ""
    /\ err_detail = <<>>
    /\ job_id = None
    /\ remote_command = <<>>
    /\ command_str = None
    /\ status = None
    /\ uncaught = ""
    /\ printed = <<>>
    /\ queue_text = None
    /\ NoRunSsh

SpecCli == InitCli /\ [][CliNext]_vars

\* queue_status called directly, over the outputs of squeue
InitQueue ==
    /\ scope = "queue"
    /\ pc = "queue"
    /\ options \in {[NoOptions EXCEPT !.partition = p] :
                      p \in {None, Some(<<>>), Some(<<"g", "p", "u">>)}}
    /\ queue_text = None
    /\ command = "none"
    /\ config_loads = TRUE
    /\ local_is_dir = FALSE
    /\ excludes = <<>>
    /\ sync_path = None
    /\ status = None
    /\ uncaught = ""
    /\ printed = <<>>
    /\ available = <<>>
    /\ best_gpu = None
    /\ remote_command = <<>>
    /\ command_str = None
    /\ script_exists = FALSE
    /\ cwd = <<>>
    /\ local_job_script = <<>>
    /\ remote_name = None
    /\ sbatch_args = <<>>
    /\ auto_gpu = FALSE
    /\ script_gpu_count = None
    /\ remote_script = <<>>
    /\ args = <<>>
    /\ calls = <<>>
    /\ outcome = "running"
    /\ err_msg = ""
    /\ err_detail = <<>>
    /\ job_id = None
    /\ NoRunSsh

SpecQueue == InitQueue /\ [][QueueStatus]_vars

-----------------------------------------------------------------------------
(* Properties.                                                             *)

Rank(cmd) ==
    CASE cmd = "mkdir" -> 1 [] cmd = "scp" -> 2 [] cmd = "sinfo" -> 3
      [] cmd = "sbatch" -> 4

Issued(cmd) == \E i \in 1..Len(calls) : calls[i].cmd = cmd

\* C1: submit_job issues its external commands in the order mkdir, scp,
\* (sinfo), sbatch, each at most once and none skipped except sinfo; a
\* command is issued only when every earlier one other than sinfo exited
\* with status zero, so sbatch never follows a failed mkdir or a failed scp.
C1_FixedOrder ==
    /\ \A i, j \in 1..Len(calls) :
          i < j => /\ Rank(calls[i].cmd) < Rank(calls[j].cmd)
                   /\ calls[i].cmd # "sinfo" => calls[i].rc = 0
    /\ Len(calls) >= 1 => calls[1].cmd = "mkdir"
    /\ Len(calls) >= 2 => calls[2].cmd = "scp"

\* C1 witness: all four commands were issued, the inventory query failing
C1_Witness ==
    /\ Len(calls) = 4
    /\ calls[3].cmd = "sinfo" /\ calls[3].rc # 0
    /\ calls[4].cmd = "sbatch"

\* A remote path lies inside a directory when, ".." components followed,
\* it has the directory's components as a prefix
Inside(path, dir) ==
    /\ path.abs = dir.abs
    /\ IsPrefix(Collapse(dir.abs, dir.parts, <<>>),
                Collapse(path.abs, path.parts, <<>>))

\* C2: whatever the remote name and the script path, the destination passed
\* to scp and to sbatch lies inside remote_workdir/<name of the working
\* directory>.
C2_DestinationInsideRepoDir ==
    \A i \in 1..Len(calls) :
        calls[i].cmd \in {"scp", "sbatch"} =>
            Inside(ParsePath(remote_script),
                   RemoteRepoDir(PathName(ParsePath(cwd))))

\* C3: the command string run_ssh builds is read by a POSIX shell as one
\* command whose words are exactly the tokens given, with no expansion and
\* no further command.
C3_ShellReproducesTokens ==
    (pc = "done" /\ ~IsNone(command_str)) =>
        LET r == ShellParse(Get(command_str)) IN
        /\ r.ok
        /\ r.cmds = IF Len(remote_command) = 0 THEN <<>> ELSE <<remote_command>>

SinfoFailed ==
    \E i \in 1..Len(calls) :
        calls[i].cmd = "sinfo" /\ (calls[i].rc # 0 \/ IsNone(calls[i].out))

\* tokens holds the adjacent pair a, b
HasPair(tokens, a, b) ==
    \E i \in 1..(Len(tokens) - 1) : tokens[i] = a /\ tokens[i + 1] = b

\* C4: when the inventory query fails (non-zero exit or any other error),
\* submit_job does not fail on it: the inventory is empty, the fallback type
\* is selected, "--gres gpu:rtx2080ti:<count>" is among the tokens, and
\* sbatch is the next command issued.
C4_QueryFailureDegrades ==
    SinfoFailed =>
        /\ available = <<>>
        /\ best_gpu = Some(FALLBACK_GPU)
        /\ HasPair(args, S_gres,
                   S_gpu_colon \o FALLBACK_GPU \o <<":">>
                   \o IntStr(IF IsNone(script_gpu_count) THEN 1
                             ELSE Get(script_gpu_count)))
        /\ \/ pc = "sbatch" /\ outcome = "running"
           \/ Issued("sbatch")

\* C4 witness: the query failed and the job was still submitted
C4_Witness ==
    /\ SinfoFailed
    /\ Issued("sbatch")
    /\ outcome = "returned"

ParseErrorMsg == "Unable to parse sbatch output for job id"

\* The positions of "Submitted batch job " in s
Occurrences(s) ==
    {k \in 1..Len(s) :
        /\ k + Len(SBATCH_JOB_ID_PREFIX) - 1 <= Len(s)
        /\ SubSeq(s, k, k + Len(SBATCH_JOB_ID_PREFIX) - 1) = SBATCH_JOB_ID_PREFIX}

\* d is the longest run of digits of s that starts at position k
IsDigitRunAt(d, s, k) ==
    /\ k + Len(d) - 1 <= Len(s)
    /\ d = SubSeq(s, k, k + Len(d) - 1)
    /\ \A j \in 1..Len(d) : d[j] \in Digits
    /\ (k + Len(d) > Len(s) \/ s[k + Len(d)] \notin Digits)

\* The output submit_job searches, for the sbatch call that exited with 0
SbatchOutput(c) == Strip(Get(c.out))

\* C5 as stated: after sbatch exits with 0, submit_job returns the digits
\* that follow the first occurrence of "Submitted batch job " in the output;
\* without an occurrence it fails with the parse error carrying the output;
\* the identifier returned is a non-empty string of digits.
C5_FirstOccurrence ==
    \A i \in 1..Len(calls) :
        (calls[i].cmd = "sbatch" /\ calls[i].rc = 0) =>
            LET o == SbatchOutput(calls[i]) IN
            IF Occurrences(o) # {}
            THEN /\ outcome = "returned"
                 /\ Len(Get(job_id)) > 0
                 /\ IsDigitRunAt(Get(job_id), o,
                                 Min(Occurrences(o)) + Len(SBATCH_JOB_ID_PREFIX))
            ELSE /\ outcome = "SSHError"
                 /\ err_msg = ParseErrorMsg
                 /\ err_detail = o

\* C5 amended: after sbatch exits with 0, submit_job returns the longest
\* digit run after the leftmost occurrence of "Submitted batch job " that a
\* digit follows at once; when the output has no such occurrence (empty
\* output, no phrase, or the phrase never followed by a digit) it fails with
\* the parse error carrying the stripped output; the identifier returned is
\* a non-empty string of digits.
C5_LeftmostMatch ==
    \A i \in 1..Len(calls) :
        (calls[i].cmd = "sbatch" /\ calls[i].rc = 0) =>
            LET o == SbatchOutput(calls[i])
                M == {k \in Occurrences(o) :
                        /\ k + Len(SBATCH_JOB_ID_PREFIX) <= Len(o)
                        /\ o[k + Len(SBATCH_JOB_ID_PREFIX)] \in Digits}
            IN IF M # {}
               THEN /\ outcome = "returned"
                    /\ Len(Get(job_id)) > 0
                    /\ \E k \in M :
                          /\ \A m \in M : k <= m
                          /\ IsDigitRunAt(Get(job_id), o,
                                          k + Len(SBATCH_JOB_ID_PREFIX))
               ELSE /\ outcome = "SSHError"
                    /\ err_msg = ParseErrorMsg
                    /\ err_detail = o
                    /\ IsNone(job_id)

\* C5 witness: an output with two matches, the first one returned
C5_Witness ==
    /\ outcome = "returned"
    /\ job_id = Some(<<"1">>)
    /\ \E i \in 1..Len(calls) :
          /\ calls[i].cmd = "sbatch"
          /\ Get(calls[i].out) =
                SBATCH_JOB_ID_PREFIX \o <<"1">> \o SBATCH_JOB_ID_PREFIX \o <<"2">>

Positive(inv) == {i \in 1..Len(inv) : inv[i].count > 0}

\* i is the first entry of highest score among those with positive count
IsWinner(inv, i) ==
    /\ i \in Positive(inv)
    /\ \A j \in Positive(inv) :
          /\ Score(inv[j].type) <= Score(inv[i].type)
          /\ j < i => Score(inv[j].type) < Score(inv[i].type)

\* C6 as stated: for an inventory with an entry of positive count,
\* select_best_gpu returns the display name of the entry of highest score
\* among positive-count entries, unranked types scoring zero, the first of
\* equal score winning.
C6_BestOfInventory ==
    (~IsNone(best_gpu) /\ Positive(available) # {}) =>
        \E i \in 1..Len(available) :
            /\ IsWinner(available, i)
            /\ Get(best_gpu) = SlurmName(available[i].type)

\* C6 amended: as stated, except that when the winning entry's type name is
\* the empty string the fallback type is returned.
C6_BestOfInventoryNonEmpty ==
    (~IsNone(best_gpu) /\ Positive(available) # {}) =>
        \E i \in 1..Len(available) :
            /\ IsWinner(available, i)
            /\ Get(best_gpu) = IF Len(available[i].type) = 0 THEN FALLBACK_GPU
                               ELSE SlurmName(available[i].type)

\* C6 witness: two types of equal score, the first one selected
C6_Witness ==
    /\ ~IsNone(best_gpu)
    /\ Len(available) = 2
    /\ available[1].type = <<"n", "v", "i", "d", "i", "a", "h", "1", "0", "0">>
    /\ available[2].type = <<"h", "1", "0", "0">>
    /\ Get(best_gpu) = <<"n", "v", "i", "d", "i", "a", "_", "h", "1", "0", "0">>

ScenarioInventory ==
    << [type |-> <<"h", "1", "0", "0">>, count |-> 2],
       [type |-> <<"a", "1", "0", "0">>, count |-> 5] >>

\* submit_job has finished assembling the sbatch argument list
Final == Len(args) > 0 /\ pc \in {"sbatch", "done"}

\* The tokens the tool put between "sbatch" and the user's flags
ToolAdded == SubSeq(args, 2, Len(args) - Len(sbatch_args) - 1)

\* The user's flags sit right before the script, which is the last token
UserFlagsLast ==
    /\ SubSeq(args, Len(args) - Len(sbatch_args), Len(args) - 1) = sbatch_args
    /\ args[Len(args)] = remote_script

\* t is one of the four partition forms: --partition, -p, --partition=X, -pX
IsPartitionToken(t) ==
    \/ t = S_partition
    \/ t = S_p
    \/ (Len(t) >= Len(S_partition_eq)
        /\ SubSeq(t, 1, Len(S_partition_eq)) = S_partition_eq)
    \/ (Len(t) > 2 /\ SubSeq(t, 1, 2) = S_p)

\* t is one of the six accelerator forms
IsAcceleratorToken(t) ==
    \/ t \in {S_gres, S_gpus, S_gpus_per_node}
    \/ \E e \in {S_gres_eq, S_gpus_eq, S_gpus_per_node_eq} :
          Len(t) >= Len(e) /\ SubSeq(t, 1, Len(e)) = e

UserGavePartition == \E i \in 1..Len(sbatch_args) : IsPartitionToken(sbatch_args[i])

UserGaveAccelerator ==
    \E i \in 1..Len(sbatch_args) : IsAcceleratorToken(sbatch_args[i])

\* The case of C8: inventory {h100: 2, a100: 5}, auto-selection on, no
\* accelerator flag from the user
Scenario ==
    Final /\ auto_gpu /\ ~UserGaveAccelerator /\ available = ScenarioInventory

PartitionPair == <<S_partition, DEFAULT_PARTITION>>

GresPair(name) ==
    <<S_gres, S_gpu_colon \o name \o <<":">> \o IntStr(GpuCount(script_gpu_count))>>

\* C8 as stated: with the inventory {h100: 2, a100: 5}, auto-selection on
\* and no accelerator flag from the user, the tool's flags include
\* "--gres gpu:nvidia_h100:<count>" and a default partition flag, in that
\* order, and the user's flags come after them.
C8_ScenarioGresThenPartition ==
    Scenario =>
        /\ \E g, q \in 1..(Len(ToolAdded) - 1) :
              /\ g < q
              /\ SubSeq(ToolAdded, g, g + 1) =
                    GresPair(<<"n", "v", "i", "d", "i", "a", "_", "h", "1", "0", "0">>)
              /\ SubSeq(ToolAdded, q, q + 1) = PartitionPair
        /\ UserFlagsLast

\* C8 amended: in that scenario the submitted tokens are "sbatch", then
\* "--partition kill-shared" (only when the user gave no partition flag),
\* then "--gres gpu:h100:<count>" (the inventory's name h100 has no display
\* mapping), then the user's flags, then the remote script.
C8_ScenarioPartitionThenGres ==
    Scenario =>
        /\ ToolAdded = (IF UserGavePartition THEN <<>> ELSE PartitionPair)
                         \o GresPair(<<"h", "1", "0", "0">>)
        /\ UserFlagsLast

\* C8 witness: the scenario, submitted with two user flags and no partition
C8_Witness ==
    /\ Scenario
    /\ outcome = "returned"
    /\ Len(sbatch_args) = 2
    /\ ~UserGavePartition
    /\ Len(args) = 8

\* C9: the default partition flag is added if and only if no user flag is
\* "--partition", "-p", "--partition=X" or "-pX"; every submission carries a
\* partition flag, and a user-supplied partition is never overridden.
C9_DefaultPartitionIff ==
    Final =>
        /\ HasPair(ToolAdded, S_partition, DEFAULT_PARTITION) <=> ~UserGavePartition
        /\ \E i \in 2..(Len(args) - 1) : IsPartitionToken(args[i])
        /\ UserFlagsLast

\* C9 witness: a submission whose only partition flag is the user's "-pgpu"
C9_Witness ==
    /\ Issued("sbatch")
    /\ \E i \in 1..Len(sbatch_args) : sbatch_args[i] = <<"-", "p", "g", "p", "u">>
    /\ ~HasPair(args, S_partition, DEFAULT_PARTITION)

\* C10: when the user's flags hold "--gres", "--gpus", "--gpus-per-node" or
\* one of their "=value" forms, submit_job neither queries the inventory nor
\* adds a "--gres" flag of its own, whatever auto_gpu is.
C10_UserAcceleratorWins ==
    UserGaveAccelerator =>
        /\ ~Issued("sinfo")
        /\ Final => \A k \in 1..Len(ToolAdded) : ToolAdded[k] # S_gres

\* C11: the tokens sent to sbatch are "sbatch", the default partition pair
\* (if added), the auto-selected "--gres" pair (if added), every user flag
\* in its original order, and the remote script path as the last token.
C11_TokenShape ==
    \A i \in 1..Len(calls) :
        calls[i].cmd = "sbatch" =>
            LET t == calls[i].argv
                n == Len(t)
                k == n - Len(sbatch_args) - 1
                added == SubSeq(t, 2, k)
                IsGresPair(x) == x[1] = S_gres /\ Startswith(x[2], S_gpu_colon)
            IN /\ k >= 1
               /\ t[1] = S_sbatch
               /\ t[n] = remote_script
               /\ SubSeq(t, k + 1, n - 1) = sbatch_args
               /\ \/ added = <<>>
                  \/ added = PartitionPair
                  \/ Len(added) = 2 /\ IsGresPair(added)
                  \/ /\ Len(added) = 4
                     /\ SubSeq(added, 1, 2) = PartitionPair
                     /\ IsGresPair(SubSeq(added, 3, 4))

\* C11 witness: a submission with both pairs added and two user flags
C11_Witness ==
    \E i \in 1..Len(calls) :
        /\ calls[i].cmd = "sbatch"
        /\ Len(sbatch_args) = 2
        /\ sbatch_args[1] # sbatch_args[2]
        /\ Len(calls[i].argv) = 8
        /\ best_gpu = Some(FALLBACK_GPU)

\* The transport invocation of a remote command allocates a terminal
AllocatesTerminal(c) ==
    \E j \in 1..Len(_base_args(c.tty)) :
        _base_args(c.tty)[j] \in {"-tt", "SetEnv=TERM=xterm-256color"}

\* The remote commands of submit_job whose captured output the code parses:
\* sinfo (get_available_gpus) and sbatch (the job id)
OutputParsed(c) == c.cmd \in {"sinfo", "sbatch"}

\* C12: every remote command whose captured output is parsed is invoked
\* without terminal allocation (no "-tt", no "SetEnv=TERM").
C12_ParsedWithoutTerminal ==
    \A i \in 1..Len(calls) : OutputParsed(calls[i]) => ~AllocatesTerminal(calls[i])

\* C13: when the local job script does not exist, submit_job fails with the
\* not-found error and no mkdir, scp, sinfo or sbatch is ever invoked.
C13_MissingScriptNoCommand ==
    ~script_exists =>
        /\ calls = <<>>
        /\ pc \in {"start", "done"}
        /\ pc = "done" => /\ outcome = "FileNotFoundError"
                          /\ err_msg = "Job script not found"
                          /\ err_detail = local_job_script

\* C13 witness: submit_job has failed on a missing script
C13_Witness ==
    ~script_exists /\ pc = "done" /\ outcome = "FileNotFoundError" /\ calls = <<>>

\* C15: run_ssh raises the remote-execution error if and only if the exit
\* status is not zero and check is set; the error carries the exit status,
\* the full invocation and the captured standard error (none when nothing
\* was captured); otherwise it returns a result with the remote exit status.
C15_RaisesIffCheckedFailure ==
    (scope = "run_ssh" /\ pc = "done") =>
        LET rc == calls[Len(calls)].rc IN
        /\ outcome = "SSHError" <=> (rc # 0 /\ check)
        /\ outcome = "SSHError" =>
              /\ err_msg = "SSH command failed"
              /\ err_detail.returncode = rc
              /\ err_detail.invocation.base = _base_args(force_tty)
              /\ err_detail.invocation.login = login
              /\ err_detail.invocation.command_str = Get(command_str)
              /\ err_detail.stderr =
                    (IF capture_output THEN Some(remote_stderr) ELSE None)
              /\ IsNone(result)
        /\ outcome # "SSHError" =>
              /\ outcome = "returned"
              /\ Get(result).returncode = rc

\* C15 witness: a failed command returned, not raised, because check is off
C15_Witness ==
    /\ scope = "run_ssh"
    /\ pc = "done"
    /\ ~check
    /\ outcome = "returned"
    /\ Get(result).returncode = 1

\* t between single quotes, each single quote of t written as '"'"'
RECURSIVE SingleQuotedBody(_)
SingleQuotedBody(t) ==
    IF Len(t) = 0 THEN <<>>
    ELSE (IF Head(t) = "'" THEN <<"'", "\"", "'", "\"", "'">> ELSE <<Head(t)>>)
         \o SingleQuotedBody(Tail(t))

\* The text C16 gives for one token
ExpectedPart(t) ==
    IF Len(t) > 0 /\ t[1] = "~" THEN <<"\"">> \o t \o <<"\"">>
    ELSE IF Len(t) > 0 /\ \A i \in 1..Len(t) : t[i] \in SafeChars THEN t
    ELSE <<"'">> \o SingleQuotedBody(t) \o <<"'">>

RECURSIVE ExpectedCommand(_)
ExpectedCommand(tokens) ==
    IF Len(tokens) = 0 THEN <<>>
    ELSE IF Len(tokens) = 1 THEN ExpectedPart(tokens[1])
    ELSE ExpectedPart(Head(tokens)) \o <<" ">> \o ExpectedCommand(Tail(tokens))

\* C16: for a token list, a token starting with "~" goes unescaped between
\* double quotes, any other token is left bare when it is non-empty and has
\* only safe characters and is single-quoted otherwise, and the parts are
\* joined by single spaces in order; a string is used verbatim.
C16_QuotingRule ==
    (scope = "run_ssh" /\ ~IsNone(command_str)) =>
        Get(command_str) =
            IF IsNone(remote_command_str) THEN ExpectedCommand(remote_command)
            ELSE Get(remote_command_str)

\* C16 witness: "~/work" in double quotes followed by a single-quoted token
C16_Witness ==
    /\ scope = "run_ssh"
    /\ Len(remote_command) = 2
    /\ remote_command[1] = <<"~", "/", "w", "o", "r", "k">>
    /\ remote_command[2] = <<"a", " ">>
    /\ command_str = Some(<<"\"", "~", "/", "w", "o", "r", "k", "\"", " ",
                            "'", "a", " ", "'">>)

\* The names C14 says are rejected
Rejected(n) ==
    \/ n \in {<<".">>, <<".", ".">>, <<>>}
    \/ \E i \in 1..Len(n) : n[i] \in {"/", "\\"}

NameUniverse == SeqsUpTo({"p", ".", "/", "\\"}, MaxNameLen)

\* The directory name the command under way validates
NameValidated ==
    IF command = "sync" THEN PathName(SyncLocalPath) ELSE PathName(ParsePath(cwd))

InvalidNameReported ==
    \/ outcome = "ValueError"
    \/ \E k \in 1..Len(printed) : printed[k].text = "Invalid directory name"

\* The command under way has run up to its end, past its validation
RanPastValidation ==
    /\ pc = "exit"
    /\ config_loads
    /\ command = "submit" => (script_exists /\ calls[1].rc = 0)

\* C14: the validation of submit_job, sync and build-env rejects exactly
\* ".", "..", the empty name and the names holding "/" or "\", and accepts
\* every other name; after a rejection no transfer, sync, build or
\* submission is issued.
C14_DirNameValidation ==
    /\ \A n \in NameUniverse : InvalidDirName(n) <=> Rejected(n)
    /\ command \in {"submit", "sync", "build-env"} =>
          /\ InvalidNameReported => Rejected(NameValidated)
          /\ (Rejected(NameValidated) /\ RanPastValidation) => InvalidNameReported
          /\ Rejected(NameValidated) =>
                /\ \A i \in 1..Len(calls) :
                      calls[i].cmd \notin {"scp", "rsync", "sbatch", "bash"}
                /\ command # "submit" => calls = <<>>

\* C14 witness: sync of a directory whose name holds a backslash, rejected
C14_Witness ==
    /\ command = "sync"
    /\ pc = "exit"
    /\ NameValidated = <<"a", "\\", "b">>
    /\ status = Some(1)
    /\ InvalidNameReported
    /\ calls = <<>>

\* The most external commands an operation issues
MaxCalls == IF command = "submit" THEN 4 ELSE IF command = "sync" THEN 2 ELSE 1

\* C17: no operation retries: each external command is invoked at most
\* once, and nothing is invoked again after it failed (only the inventory
\* query may fail and be followed, by sbatch).
C17_NoRetry ==
    /\ \A i, j \in 1..Len(calls) : i < j => calls[i].cmd # calls[j].cmd
    /\ \A i \in 1..Len(calls) :
          calls[i].rc # 0 => (i = Len(calls) \/ calls[i].cmd = "sinfo")
    /\ Len(calls) <= MaxCalls

\* C17 witness: a sync whose rsync failed after its mkdir, and main is over
C17_Witness ==
    /\ command = "sync"
    /\ pc = "exit"
    /\ Len(calls) = 2
    /\ calls[2].cmd = "rsync"
    /\ calls[2].rc # 0

\* submit_job failed although the script was copied
FailedAfterCopy ==
    /\ pc = "done"
    /\ outcome # "returned"
    /\ \E i \in 1..Len(calls) : calls[i].cmd = "scp" /\ calls[i].rc = 0

\* C18: when submit_job fails after the copy succeeded (sbatch exits
\* non-zero or its output cannot be parsed), sbatch is the last command
\* issued: nothing is issued to remove the copied script or the workspace.
C18_NoCleanup ==
    FailedAfterCopy =>
        /\ calls[Len(calls)].cmd = "sbatch"
        /\ \A i \in 1..Len(calls) :
              /\ calls[i].cmd \in {"mkdir", "scp", "sinfo", "sbatch"}
              /\ calls[i].argv[1] \notin {<<"r", "m">>, <<"r", "m", "d", "i", "r">>}
              /\ calls[i].cmd = "scp" =>
                    calls[i].argv[2] = login \o <<":">> \o remote_script
        /\ calls[Len(calls)].argv[Len(args)] = remote_script

\* C18 witness: the script was copied and the output of sbatch had no job id
C18_Witness ==
    /\ FailedAfterCopy
    /\ err_msg = "Unable to parse sbatch output for job id"
    /\ Len(calls) = 3

\* C19: sync_directory_to_remote fails with the not-found error and no
\* command when the local directory does not exist; otherwise mkdir -p of
\* the remote directory comes first, rsync runs only after it succeeded,
\* with "--delete" and one "--exclude" per pattern in the given order, and
\* the transfer error is raised if and only if rsync exits non-zero.
C19_SyncProtocol ==
    command = "sync" =>
        LET pats == DEFAULT_EXCLUDES \o excludes IN
        /\ ~local_is_dir =>
              /\ calls = <<>>
              /\ pc \in {"done", "exit"} /\ config_loads /\ ~Rejected(NameValidated)
                    => outcome = "FileNotFoundError"
        /\ outcome = "FileNotFoundError" => ~local_is_dir
        /\ \A j \in 1..Len(calls) :
              calls[j].cmd = "rsync" =>
                  LET a == calls[j].argv IN
                  /\ j = 2
                  /\ calls[1].cmd = "mkdir"
                  /\ calls[1].rc = 0
                  /\ calls[1].argv = <<S_mkdir, S_p, SyncRemoteDir>>
                  /\ Len(a) = 7 + 2 * Len(pats)
                  /\ \E k \in 1..(Len(a) - 2) : a[k] = "--delete"
                  /\ \A k \in 1..Len(pats) :
                        a[2 + 2 * k] = "--exclude" /\ a[3 + 2 * k] = pats[k]
                  /\ Cardinality({k \in 1..(Len(a) - 2) : a[k] = "--exclude"})
                        = Len(pats)
        /\ (outcome = "SSHError" /\ err_msg = "rsync failed")
              <=> \E j \in 1..Len(calls) : calls[j].cmd = "rsync" /\ calls[j].rc # 0

\* C19 witness: rsync ran with two user patterns and failed
C19_Witness ==
    /\ command = "sync"
    /\ Len(excludes) = 2
    /\ excludes[1] # excludes[2]
    /\ Len(calls) = 2
    /\ calls[2].rc # 0
    /\ err_msg = "rsync failed"

SuccessPrinted == \E k \in 1..Len(printed) : printed[k].kind = "success"

ErrorPrinted == \E k \in 1..Len(printed) : printed[k].kind = "error"

\* C20: for every command and every kind of failure main prints the error
\* and returns a non-zero status; it returns 0 only when the operation
\* completed, and only then is the success message printed.
C20_FailuresReported ==
    pc = "exit" =>
        /\ outcome # "returned" =>
              /\ ErrorPrinted
              /\ ~IsNone(status)
              /\ status # Some(0)
        /\ status = Some(0) <=> outcome = "returned"
        /\ SuccessPrinted => outcome = "returned"

\* The line counts as a node of an accelerator type, for the given states
Contributes(line, states) ==
    LET f == SplitWs(line) IN
    /\ Len(f) >= 3
    /\ Lower(f[3]) \in states
    /\ Contains(Lower(f[2]), S_gpu_colon)

\* The normalized type of a contributing line: the second colon-delimited
\* field of its resource spec, lower-case, underscores stripped
TypeOfLine(line) == Remove(Split(Lower(SplitWs(line)[2]), ":")[2], "_")

\* inv maps each type to the number of contributing lines of that type
CountsLines(inv, out, states) ==
    LET lines == IF Len(out) > 0 THEN Split(Strip(out), "\n") ELSE <<>>
        hits(t) == {i \in 1..Len(lines) :
                      Contributes(lines[i], states) /\ TypeOfLine(lines[i]) = t}
        types == {TypeOfLine(lines[i]) :
                    i \in {k \in 1..Len(lines) : Contributes(lines[k], states)}}
    IN /\ InvTypes(inv) = types
       /\ \A i, j \in 1..Len(inv) : inv[i].type = inv[j].type => i = j
       /\ \A i \in 1..Len(inv) : inv[i].count = Cardinality(hits(inv[i].type))

\* The inventory query answered and its output was read
Answered(c) == c.cmd = "sinfo" /\ c.rc = 0 /\ ~IsNone(c.out)

\* C21 as stated: the inventory maps each normalized type to the number of
\* output lines of that type whose state is "idle" or "mixed"; no other
\* line contributes.
C21_CountsIdleOrMixed ==
    \A i \in 1..Len(calls) :
        Answered(calls[i]) =>
            CountsLines(available, Get(calls[i].out), {S_idle, S_mixed})

\* C21 amended: the states counted are "idle", "mix" and "mixed", compared
\* in lower case.
C21_CountsIdleMixOrMixed ==
    \A i \in 1..Len(calls) :
        Answered(calls[i]) =>
            CountsLines(available, Get(calls[i].out), {S_idle, S_mix, S_mixed})

\* C21 witness: two lines of one type, given in upper case with an
\* underscore, counted under the normalized name
C21_Witness ==
    /\ \E i \in 1..Len(calls) : Answered(calls[i])
    /\ available = <<[type |-> <<"n", "v", "i", "d", "i", "a", "h", "1", "0", "0">>,
                      count |-> 2]>>

\* The second "|"-delimited column of the line is the configured user
SecondColumnIsUser(l) ==
    \E a \in 0..Len(l) :
        /\ a + 1 + Len(user) <= Len(l)
        /\ \A k \in 1..a : l[k] # "|"
        /\ l[a + 1] = "|"
        /\ SubSeq(l, a + 2, a + 1 + Len(user)) = user
        /\ \/ a + 1 + Len(user) = Len(l)
           \/ l[a + 2 + Len(user)] = "|"

Marked(l) == <<">", ">", ">", " ">> \o l \o <<" ", "<", "<", "<">>

\* squeue answered with a non-empty output
QueueAnswered(c) ==
    /\ c.cmd = "squeue"
    /\ c.rc = 0
    /\ ~IsNone(c.out)
    /\ Len(Get(c.out)) > 0

\* C22: for a non-empty queue output, whose lines are those of the output
\* without its surrounding whitespace, the text returned is a banner of
\* three lines, the header line, a separator, every data line in its
\* order, and a banner of three lines; a data line is inside the
\* ">>> ... <<<" marker exactly when its second "|"-column is the user,
\* and the header line is never marked.
C22_QueueLayout ==
    \A i \in 1..Len(calls) :
        QueueAnswered(calls[i]) =>
            /\ ~IsNone(queue_text)
            /\ LET lines == Split(Strip(Get(calls[i].out)), "\n")
                   emitted == Split(Get(queue_text), "\n")
                   n == Len(lines)
               IN /\ Len(emitted) = n + 8
                  /\ emitted[1] = Repeat("=", 100)
                  /\ Startswith(emitted[2], S_queue_status)
                  /\ emitted[3] = Repeat("=", 100)
                  /\ emitted[4] = lines[1]
                  /\ emitted[5] = Repeat("-", 100)
                  /\ \A k \in 2..n :
                        emitted[k + 4] = IF SecondColumnIsUser(lines[k])
                                         THEN Marked(lines[k]) ELSE lines[k]
                  /\ emitted[n + 5] = Repeat("=", 100)
                  /\ emitted[n + 6] = S_your_jobs
                  /\ emitted[n + 7] = Repeat("=", 100)
                  /\ emitted[n + 8] = <<>>

\* C22 witness: a header with the user in its second column left as it
\* is, then a job of another user unmarked and a job of the user marked
C22_Witness ==
    /\ ~IsNone(queue_text)
    /\ \E i \in 1..Len(calls) : QueueAnswered(calls[i])
    /\ LET emitted == Split(Get(queue_text), "\n") IN
        /\ Len(emitted) = 11
        /\ emitted[4] = <<"0", "|", "u">>
        /\ emitted[6] = <<"3", "|", "u", "u", "|", "j">>
        /\ emitted[7] = Marked(<<"1", "|", "u", "|", "j">>)

\* The partition the user's flags name, in the four forms and the last
\* one winning, or the given one when they name none
RECURSIVE NamedPartition(_, _, _)
NamedPartition(flags, i, partition) ==
    IF i > Len(flags) THEN partition
    ELSE IF flags[i] \in {S_partition, S_p}
         THEN NamedPartition(flags, i + 1,
                             IF i < Len(flags) THEN flags[i + 1] ELSE partition)
    ELSE IF Startswith(flags[i], S_partition_eq)
         THEN NamedPartition(flags, i + 1,
                             SubSeq(flags[i], Len(S_partition_eq) + 1,
                                    Len(flags[i])))
    ELSE IF Startswith(flags[i], S_p)
         THEN NamedPartition(flags, i + 1, SubSeq(flags[i], 3, Len(flags[i])))
    ELSE NamedPartition(flags, i + 1, partition)

\* C23: whenever submit_job queries the inventory, the partition it asks
\* about is the one the job is submitted to: the one the user's partition
\* flag names ("--partition X", "-p X", "--partition=X", "-pX", the last
\* one when repeated), or the default partition without such a flag.
C23_QueryUsesJobPartition ==
    \A i \in 1..Len(calls) :
        calls[i].cmd = "sinfo" =>
            /\ calls[i].argv[2] = S_p
            /\ calls[i].argv[3] =
                  NamedPartition(sbatch_args, 1, DEFAULT_PARTITION)

\* The positions of the inventory queries among the commands issued
Queries == {i \in 1..Len(calls) : calls[i].cmd = "sinfo"}

\* C24: a submit_job call with auto-selection enabled and no accelerator
\* flag among the user flags issues exactly one inventory query, after the
\* copy of the script succeeded and before sbatch, and the inventory it
\* uses is the one that query returned (the empty one when the query
\* failed); a call with auto-selection disabled issues no query.
C24_OneFreshQuery ==
    /\ ~auto_gpu => Queries = {}
    /\ (auto_gpu /\ ~UserGaveAccelerator) =>
          /\ Cardinality(Queries) <= 1
          /\ (pc \in {"sbatch", "done"}
              /\ \E j \in 1..Len(calls) :
                    calls[j].cmd = "scp" /\ calls[j].rc = 0)
                => Cardinality(Queries) = 1
          /\ \A i \in Queries :
                /\ \E j \in 1..(i - 1) : calls[j].cmd = "scp" /\ calls[j].rc = 0
                /\ \A j \in 1..Len(calls) : calls[j].cmd = "sbatch" => i < j
                /\ IF calls[i].rc = 0 /\ ~IsNone(calls[i].out)
                   THEN CountsLines(available, Get(calls[i].out),
                                    {S_idle, S_mix, S_mixed})
                   ELSE available = <<>>
                /\ best_gpu = Some(SelectBest(available))

\* C24 witness: a submission went through with one answered query while
\* the user gave a partition and no accelerator
C24_Witness ==
    /\ auto_gpu /\ ~UserGaveAccelerator /\ UserGavePartition
    /\ pc = "done" /\ outcome = "returned"
    /\ Cardinality(Queries) = 1
    /\ \A i \in Queries : calls[i].rc = 0
    /\ Len(available) > 0

\* The directory holding the path, ".." components followed
ParentDir(path) ==
    LET parts == Collapse(path.abs, path.parts, <<>>) IN
    [abs |-> path.abs, parts |-> SubSeq(parts, 1, Len(parts) - 1)]

\* "mkdir -p dir" creates the wanted directory: it is dir or above it
Creates(dir, wanted) ==
    /\ dir.abs = wanted.abs
    /\ IsPrefix(wanted.parts, Collapse(dir.abs, dir.parts, <<>>))

\* C25: whenever submit_job issues the copy of the script to a remote
\* destination, a remote directory creation covering the parent directory
\* of that destination has been issued and has succeeded earlier in the
\* same call.
C25_ParentCreatedBeforeCopy ==
    \A i \in 1..Len(calls) :
        calls[i].cmd = "scp" =>
            \E j \in 1..(i - 1) :
                /\ calls[j].cmd = "mkdir"
                /\ calls[j].rc = 0
                /\ Creates(ParsePath(calls[j].argv[3]),
                           ParentDir(ParsePath(remote_script)))

\* The token is among those handed to sbatch
Submitted(token) ==
    \A i \in 1..Len(calls) :
        calls[i].cmd = "sbatch" =>
            \E k \in 1..Len(calls[i].argv) : calls[i].argv[k] = token

\* C26: when submit is given "--gpus N" (for every integer N, 0 included),
\* "--gres G" or "--no-auto-gpu", submit_job is called with auto-selection
\* disabled: no inventory query is issued and no accelerator is selected;
\* with "--gpus N" the flags submitted contain "--gres=gpu:N" and with
\* "--gres G" they contain "--gres=G".
C26_ExplicitAcceleratorDisablesAuto ==
    (command = "submit"
     /\ (~IsNone(options.gpus) \/ ~IsNone(options.gres) \/ options.no_auto_gpu))
    => /\ ~auto_gpu
       /\ ~Issued("sinfo")
       /\ IsNone(best_gpu)
       /\ ~IsNone(options.gpus) =>
              Submitted(S_gres_eq \o S_gpu_colon \o IntStr(Get(options.gpus)))
       /\ ~IsNone(options.gres) => Submitted(S_gres_eq \o Get(options.gres))

====
